---------------------------- MODULE Spec2Model ----------------------------
(***************************************************************************)
(* Bigraph substitution codec: key generation (key_manager.py), encoder    *)
(* (encoder.py) and decoder (decoder.py).                                  *)
(*                                                                         *)
(* Text is a sequence of one-character strings.  A meaning is the sequence *)
(* of characters of the Python string ("HE" is <<"H", "E">>, "NUM_3" is    *)
(* <<"N", "U", "M", "_", "3">>), so that prefix tests, indexing and        *)
(* splitting are computed as the code computes them.  Python indices are   *)
(* 0-based; sequences here are 1-based, so s[i] in Python is s[i + 1].     *)
(***************************************************************************)
EXTENDS Integers, Sequences, FiniteSets, TLC

VARIABLES
  rng,                 \* state of the process-wide generator of module random
  key,                 \* the key dictionary last returned / held by the codec
  key_log,             \* the keys generate_key has returned, in call order
  space_marker_index,  \* BigramEncoder.space_marker_index
  a_rotation_index,    \* BigramEncoder.a_rotation_index
  i_rotation_index,    \* BigramEncoder.i_rotation_index
  last,                \* the last operation performed
  origin,              \* the operation that produced `encoded`
  plaintext,           \* argument of the last encode / encode_math_expression
  encoded,             \* token list returned by the last encode call
  decoded,             \* string returned by the last decode call
  special_extra,       \* number of entries appended to the list constants.SPECIAL_CHARS
  error,               \* the exception the last operation raised, "none" if it returned
  calls,               \* number of encoder calls made on the BigramEncoder instance
  entry_counters,      \* the three counters as the last encoder call found them
  instances,           \* the counters of each BigramEncoder instance held by a thread
  threads,             \* each thread's call: its instance, position, locals and result
  records,             \* list returned by the last decode_with_symbols call
  content,             \* text of the encoded-message file
  loaded,              \* token list returned by the last load_encoded_message call
  key_file,            \* the JSON object in the key file
  loaded_key           \* the key dictionary returned by the last load_key call

vars == <<rng, key, key_log, space_marker_index, a_rotation_index,
          i_rotation_index, last, origin, plaintext, encoded, decoded,
          special_extra, error, calls, entry_counters, instances, threads,
          records, content, loaded, key_file, loaded_key>>

keyVars == <<rng, key, key_log>>
encoderVars == <<space_marker_index, a_rotation_index, i_rotation_index>>
ioVars == <<last, origin, plaintext, encoded, decoded>>
fileVars == <<records, content, loaded, key_file, loaded_key>>
extVars == <<special_extra, error, calls, entry_counters, instances, threads, fileVars>>

---------------------------------------------------------------------------
(* Sequence helpers *)

Range(s) == {s[k] : k \in 1..Len(s)}

RECURSIVE Concat(_)
Concat(ss) == IF ss = <<>> THEN <<>> ELSE Head(ss) \o Concat(Tail(ss))

\* s.startswith(p)
StartsWith(s, p) == Len(s) >= Len(p) /\ SubSeq(s, 1, Len(p)) = p

\* Python's s[a:b] for 0 <= a
Slice(s, a, b) == SubSeq(s, a + 1, IF b > Len(s) THEN Len(s) ELSE b)

IndexOf(s, c) == CHOOSE k \in 1..Len(s) : s[k] = c

---------------------------------------------------------------------------
(* constants.py *)

LETTERS == <<"A", "B", "C", "D", "E", "F", "G", "H", "I", "J", "K", "L", "M",
             "N", "O", "P", "Q", "R", "S", "T", "U", "V", "W", "X", "Y", "Z">>

BIGRAMS == [k \in 1..(Len(LETTERS) * Len(LETTERS)) |->
              <<LETTERS[((k - 1) \div Len(LETTERS)) + 1],
                LETTERS[((k - 1) % Len(LETTERS)) + 1]>>]

SPACE_MARKERS == << <<"J", "Q">>, <<"Q", "G">>, <<"Q", "K">>, <<"Q", "Y">>,
                    <<"Q", "Z">>, <<"W", "Q">>, <<"W", "Z">> >>

SPECIAL_CHARS == <<"!", "@", "#", "$", "%", "^", "&", "*", "(", ")", "=", "<", ">", "?">>

DIGITS == <<"0", "1", "2", "3", "4", "5", "6", "7", "8", "9">>

MULTIPLY_DIVIDE_MARKER == <<"M", "U", "L", "D", "I", "V">>

TOTAL_SYMBOLS ==
  Len(BIGRAMS) + Len(DIGITS) * 2 + 1 + Len(SPECIAL_CHARS) + Len(SPACE_MARKERS)

\* The offset the encoder adds, and the decoder subtracts, for a partial-after token.
PARTIAL_AFTER_OFFSET == 10000

\* The prefixes of the f-strings of generate_key and of the decoder's startswith tests.
NUM_ == <<"N", "U", "M", "_">>
NUM_NEG_ == <<"N", "U", "M", "_", "N", "E", "G", "_">>
SPECIAL_ == <<"S", "P", "E", "C", "I", "A", "L", "_">>
SPACE_ == <<"S", "P", "A", "C", "E", "_">>

\* dict.get returning None, for a symbol index (indices are >= 0) and for a meaning
\* (None and the empty string are both false in `if meaning`).
None == -1
NoMeaning == <<>>

\* int(digit) for a digit character, and str(n) for 0 <= n <= 9
IntOfDigit(c) == IndexOf(DIGITS, c) - 1
StrOfDigit(n) == <<DIGITS[n + 1]>>

---------------------------------------------------------------------------
(* The generator of module random.  The Mersenne Twister is abstracted by a *)
(* small linear congruential generator: what the program relies on is that *)
(* the draws are a function of the generator's state, that random.seed(a)  *)
(* sets the state from abs(a), and that every draw advances the state.     *)

RngNext(st) == (st * 75 + 74) % 65537
\* generate_key without line 47: the generator keeps the state it has
random_seed_missing(st, a) == st

\* random.seed(a) for an int a
random_seed(st, a) == (IF a < 0 THEN -a ELSE a) % 65537

\* random._randbelow(n): <<value, state after>>
randbelow(st, n) == <<RngNext(st) % n, RngNext(st)>>

\* random.randint(0, 2**32 - 1), narrowed to the width of the modelled state
randint(st) == <<RngNext(st), RngNext(st)>>
\* the shuffle step as x[i] = x[j], without the exchange
ShuffleStep_overwrite(p, i) ==
  LET x == p[1]
      d == randbelow(p[2], i + 1)
      j == d[1]
  IN <<[x EXCEPT ![i + 1] = x[j + 1]], d[2]>>

\* One iteration of shuffle's loop: j = randbelow(i + 1); x[i], x[j] = x[j], x[i]
ShuffleStep(p, i) ==
  LET x == p[1]
      d == randbelow(p[2], i + 1)
      j == d[1]
  IN <<[x EXCEPT ![i + 1] = x[j + 1], ![j + 1] = x[i + 1]], d[2]>>

\* The iterations i = hi, hi - 1, ..., lo of shuffle's loop, p = <<list, state>>.
\* The range is halved to keep the evaluation depth logarithmic; the test on q
\* makes the first half complete before the second starts.
RECURSIVE ShuffleSteps(_, _, _)
ShuffleSteps(p, hi, lo) ==
  IF hi < lo THEN p
  ELSE IF hi = lo THEN ShuffleStep(p, hi)
  ELSE LET mid == (hi + lo) \div 2
           q == ShuffleSteps(p, hi, mid + 1)
       IN IF q[2] >= 0 THEN ShuffleSteps(q, mid, lo) ELSE q

\* random.shuffle(x): for i in reversed(range(1, len(x))): ...
shuffle(x, st) == ShuffleSteps(<<x, st>>, Len(x) - 1, 1)

---------------------------------------------------------------------------
(* key_manager.py *)

\* The list `items` without its first entry, the bigram AA
Items_tail ==
  Tail(BIGRAMS)
  \o [d \in 1..Len(DIGITS) |-> NUM_ \o <<DIGITS[d]>>]
  \o [d \in 1..Len(DIGITS) |-> NUM_NEG_ \o <<DIGITS[d]>>]
  \o <<MULTIPLY_DIVIDE_MARKER>>
  \o [c \in 1..Len(SPECIAL_CHARS) |-> SPECIAL_ \o <<SPECIAL_CHARS[c]>>]
  \o [m \in 1..Len(SPACE_MARKERS) |-> SPACE_ \o SPACE_MARKERS[m]]

\* The list `items` of generate_key, in the order it is built.
Items ==
  BIGRAMS
  \o [d \in 1..Len(DIGITS) |-> NUM_ \o <<DIGITS[d]>>]
  \o [d \in 1..Len(DIGITS) |-> NUM_NEG_ \o <<DIGITS[d]>>]
  \o <<MULTIPLY_DIVIDE_MARKER>>
  \o [c \in 1..Len(SPECIAL_CHARS) |-> SPECIAL_ \o <<SPECIAL_CHARS[c]>>]
  \o [m \in 1..Len(SPACE_MARKERS) |-> SPACE_ \o SPACE_MARKERS[m]]

\* {i: shuffled_items[i] for i in range(len(shuffled_items))}
SymbolToMeaning(shuffled_items) ==
  [i \in 0..(Len(shuffled_items) - 1) |-> shuffled_items[i + 1]]

\* One assignment d[v] = k of the dict comprehension {v: k for k, v in ...items()}
InvertStep(s2m, f, k) == [f EXCEPT ![s2m[k]] = k]

RECURSIVE InvertSteps(_, _, _, _)
InvertSteps(s2m, f, lo, hi) ==
  IF hi < lo THEN f
  ELSE IF hi = lo THEN InvertStep(s2m, f, lo)
  ELSE LET mid == (hi + lo) \div 2
           g == InvertSteps(s2m, f, lo, mid)
       IN IF g[s2m[lo]] # None THEN InvertSteps(s2m, g, mid + 1, hi) ELSE g

\* {v: k for k, v in symbol_to_meaning.items()}: keys in increasing order, a later
\* key overwriting an earlier one with the same meaning.
MeaningToSymbol(s2m) ==
  LET n == Cardinality(DOMAIN s2m)
  IN InvertSteps(s2m, [m \in {s2m[k] : k \in DOMAIN s2m} |-> None], 0, n - 1)

\* SymbolGenerator(seed=seed).generate_all_symbols(): reseeds the process-wide
\* generator and draws from it; the glyphs are not modelled, the draws are
\* abstracted to one advance of the state.
generate_all_symbols(st, seed) == RngNext(random_seed(st, seed))

\* generate_key(recipient_name, seed) with an explicit seed, started with the
\* process-wide generator in state st: the key and the state the call leaves.
generate_key(st, recipient_name, seed) ==
  LET seeded == random_seed(st, seed)
      shuffled_items == shuffle(Items, seeded)[1]
      symbol_to_meaning == SymbolToMeaning(shuffled_items)
      meaning_to_symbol == MeaningToSymbol(symbol_to_meaning)
  IN [key |-> [recipient |-> recipient_name,
               seed |-> seed,
               symbol_to_meaning |-> symbol_to_meaning,
               meaning_to_symbol |-> meaning_to_symbol],
      rng |-> generate_all_symbols(seeded, seed)]

\* generate_key(recipient_name) with seed None: seed = random.randint(0, 2**32 - 1)
generate_key_unseeded(st, recipient_name) ==
  LET d == randint(st) IN generate_key(d[2], recipient_name, d[1])

\* str(n) for an int n: the decimal digits, with a leading "-" when n < 0
RECURSIVE DecimalDigits(_)
DecimalDigits(n) ==
  IF n < 10 THEN <<DIGITS[n + 1]>>
  ELSE DecimalDigits(n \div 10) \o <<DIGITS[(n % 10) + 1]>>

str(n) == IF n < 0 THEN <<"-">> \o DecimalDigits(-n) ELSE DecimalDigits(n)

\* SPECIAL_CHARS is a module-level list that generate_key reads at each call;
\* the c-th string appended to it is "x1", "x2", ...
ExtraSpecialChar(c) == <<"x">> \o str(c)

\* The list `items` of generate_key when SPECIAL_CHARS holds `extra` more strings.
ItemsWith(extra) ==
  BIGRAMS
  \o [d \in 1..Len(DIGITS) |-> NUM_ \o <<DIGITS[d]>>]
  \o [d \in 1..Len(DIGITS) |-> NUM_NEG_ \o <<DIGITS[d]>>]
  \o <<MULTIPLY_DIVIDE_MARKER>>
  \o [c \in 1..Len(SPECIAL_CHARS) |-> SPECIAL_ \o <<SPECIAL_CHARS[c]>>]
  \o [c \in 1..extra |-> SPECIAL_ \o ExtraSpecialChar(c)]
  \o [m \in 1..Len(SPACE_MARKERS) |-> SPACE_ \o SPACE_MARKERS[m]]

\* generate_key(recipient_name, seed) over that list: lines 47-95 hold no test of
\* the number of items and no raise, the call returns a key whatever the list is.
generate_key_with(extra, st, recipient_name, seed) ==
  LET seeded == random_seed(st, seed)
      shuffled_items == shuffle(ItemsWith(extra), seeded)[1]
      symbol_to_meaning == SymbolToMeaning(shuffled_items)
      meaning_to_symbol == MeaningToSymbol(symbol_to_meaning)
  IN [key |-> [recipient |-> recipient_name,
               seed |-> seed,
               symbol_to_meaning |-> symbol_to_meaning,
               meaning_to_symbol |-> meaning_to_symbol],
      rng |-> generate_all_symbols(seeded, seed),
      error |-> "none"]

get_symbol_for_bigram(k, bigram) ==
  IF bigram \in DOMAIN k.meaning_to_symbol THEN k.meaning_to_symbol[bigram] ELSE None

get_symbol_for_number(k, number) ==
  LET meaning == IF number >= 0 THEN NUM_ \o StrOfDigit(number)
                 ELSE NUM_NEG_ \o StrOfDigit(-number)
  IN IF meaning \in DOMAIN k.meaning_to_symbol THEN k.meaning_to_symbol[meaning] ELSE None

get_symbol_for_space_marker(k, marker) ==
  LET meaning == SPACE_ \o marker
  IN IF meaning \in DOMAIN k.meaning_to_symbol THEN k.meaning_to_symbol[meaning] ELSE None

get_muldiv_symbol(k) ==
  IF MULTIPLY_DIVIDE_MARKER \in DOMAIN k.meaning_to_symbol
  THEN k.meaning_to_symbol[MULTIPLY_DIVIDE_MARKER] ELSE None

get_meaning_from_symbol(k, symbol_index) ==
  IF symbol_index \in DOMAIN k.symbol_to_meaning
  THEN k.symbol_to_meaning[symbol_index] ELSE NoMeaning

---------------------------------------------------------------------------
(* Python string operations on character sequences *)

LOWERCASE == <<"a", "b", "c", "d", "e", "f", "g", "h", "i", "j", "k", "l", "m",
               "n", "o", "p", "q", "r", "s", "t", "u", "v", "w", "x", "y", "z">>

WHITESPACE == {" ", "\t", "\n"}

isspace(c) == c \in WHITESPACE
isdigit(c) == c \in Range(DIGITS)
isalnum(c) == c \in Range(LETTERS) \cup Range(LOWERCASE) \cup Range(DIGITS)

\* str.upper()
upper(text) ==
  [k \in 1..Len(text) |->
     IF text[k] \in Range(LOWERCASE) THEN LETTERS[IndexOf(LOWERCASE, text[k])]
     ELSE text[k]]

\* str.lstrip(), str.rstrip(), str.strip()
RECURSIVE lstrip(_)
lstrip(s) == IF s # <<>> /\ isspace(Head(s)) THEN lstrip(Tail(s)) ELSE s

RECURSIVE rstrip(_)
rstrip(s) ==
  IF s # <<>> /\ isspace(s[Len(s)]) THEN rstrip(SubSeq(s, 1, Len(s) - 1)) ELSE s

strip(s) == rstrip(lstrip(s))

\* str.split(): the maximal runs of non-whitespace characters, in order.
\* cur is the run being read, out the runs completed.
RECURSIVE SplitFrom(_, _, _, _)
SplitFrom(s, k, cur, out) ==
  IF k > Len(s) THEN (IF cur = <<>> THEN out ELSE Append(out, cur))
  ELSE IF isspace(s[k])
       THEN SplitFrom(s, k + 1, <<>>, IF cur = <<>> THEN out ELSE Append(out, cur))
       ELSE SplitFrom(s, k + 1, Append(cur, s[k]), out)

split(s) == SplitFrom(s, 1, <<>>, <<>>)

\* The number of whitespace characters of s from position k on (a match of \s*)
RECURSIVE SpacesAt(_, _)
SpacesAt(s, k) == IF k <= Len(s) /\ isspace(s[k]) THEN 1 + SpacesAt(s, k + 1) ELSE 0

\* re.split(r'([.!?])\s*', text): the pieces between the matches, each followed by
\* the character its match captured.
RECURSIVE ReSplitFrom(_, _, _, _)
ReSplitFrom(s, k, cur, out) ==
  IF k > Len(s) THEN Append(out, cur)
  ELSE IF s[k] \in {".", "!", "?"}
       THEN ReSplitFrom(s, k + 1 + SpacesAt(s, k + 1), <<>>,
                        Append(Append(out, cur), <<s[k]>>))
       ELSE ReSplitFrom(s, k + 1, Append(cur, s[k]), out)

re_split(text) == ReSplitFrom(text, 1, <<>>, <<>>)

\* `x in '.!?'`: x is a substring of '.!?'
InPunctuation(x) ==
  x \in {<<>>, <<".">>, <<"!">>, <<"?">>, <<".", "!">>, <<"!", "?">>, <<".", "!", "?">>}

\* str.isdigit() and the alphanumeric characters of a word
IsDigitString(w) == w # <<>> /\ \A k \in 1..Len(w) : isdigit(w[k])
CleanWord(word) == SelectSeq(word, isalnum)

\* meaning.split('_')[-1]: what follows the last underscore
RECURSIVE AfterLastUnderscore(_)
AfterLastUnderscore(m) ==
  IF \E k \in 1..Len(m) : m[k] = "_"
  THEN AfterLastUnderscore(SubSeq(m, (CHOOSE k \in 1..Len(m) : m[k] = "_") + 1, Len(m)))
  ELSE m

\* meaning.split('_', 1)[-1]: what follows the first underscore
AfterFirstUnderscore(m) ==
  IF \E k \in 1..Len(m) : m[k] = "_"
  THEN LET k == CHOOSE j \in 1..Len(m) : m[j] = "_" /\ \A h \in 1..(j - 1) : m[h] # "_"
       IN SubSeq(m, k + 1, Len(m))
  ELSE m

---------------------------------------------------------------------------
(* encoder.py.  The methods that read or advance the rotation counters take *)
(* the counters as a record e and return them with their result.           *)

Counters(smi, ari, iri) ==
  [space_marker_index |-> smi, a_rotation_index |-> ari, i_rotation_index |-> iri]

\* The two partial-token encodings: [-symbol - 1] and [symbol + 10000]
\* a partial-after offset inside the range of plain symbols
PartialAfter_low(symbol) == symbol + 100

PartialBefore(symbol) == -symbol - 1
PartialAfter(symbol) == symbol + PARTIAL_AFTER_OFFSET

_preprocess_text(text) == upper(text)

\* The recombination loop of _split_sentences, from index i with `result` built.
RECURSIVE RecombineFrom(_, _, _)
RecombineFrom(sentences, i, result) ==
  IF i >= Len(sentences) THEN result
  ELSE IF strip(sentences[i + 1]) # <<>>
       THEN IF i + 1 < Len(sentences) /\ InPunctuation(sentences[i + 2])
            THEN RecombineFrom(sentences, i + 2,
                               Append(result, strip(sentences[i + 1] \o sentences[i + 2])))
            ELSE RecombineFrom(sentences, i + 1, Append(result, strip(sentences[i + 1])))
       ELSE RecombineFrom(sentences, i + 1, result)

_split_sentences(text) ==
  LET result == RecombineFrom(re_split(text), 0, <<>>)
  IN IF result # <<>> THEN result ELSE <<text>>

\* _get_space_marker taking the marker at the index modulo Len(SPACE_MARKERS) - 1
_get_space_marker_short(k, e) ==
  LET marker == SPACE_MARKERS[(e.space_marker_index % (Len(SPACE_MARKERS) - 1)) + 1]
      symbol == get_symbol_for_space_marker(k, marker)
  IN [result |-> IF symbol # None THEN symbol ELSE 0,
      enc |-> [e EXCEPT !.space_marker_index = @ + 1]]

_get_space_marker(k, e) ==
  LET marker == SPACE_MARKERS[(e.space_marker_index % Len(SPACE_MARKERS)) + 1]
      symbol == get_symbol_for_space_marker(k, marker)
  IN [result |-> IF symbol # None THEN symbol ELSE 0,
      enc |-> [e EXCEPT !.space_marker_index = @ + 1]]

_get_sentence_end_marker(k, e) ==
  LET first == _get_space_marker(k, e)
      second == _get_space_marker(k, first.enc)
  IN [result |-> <<first.result, second.result>>, enc |-> second.enc]

_encode_standalone_a(k, e) ==
  LET bigram_index == e.a_rotation_index % 26
      bigram == <<"A", LETTERS[bigram_index + 1]>>
      symbol == get_symbol_for_bigram(k, bigram)
  IN [result |-> IF symbol # None THEN <<PartialBefore(symbol)>> ELSE <<>>,
      enc |-> [e EXCEPT !.a_rotation_index = @ + 1]]

\* _encode_standalone_i reading and advancing a_rotation_index
_encode_standalone_i_shared(k, e) ==
  LET bigram == <<"I", LETTERS[(e.a_rotation_index % 26) + 1]>>
      symbol == get_symbol_for_bigram(k, bigram)
  IN [result |-> IF symbol # None THEN <<-symbol - 1>> ELSE <<>>,
      enc |-> [e EXCEPT !.a_rotation_index = @ + 1]]

_encode_standalone_i(k, e) ==
  LET bigram_index == e.i_rotation_index % 26
      bigram == <<"I", LETTERS[bigram_index + 1]>>
      symbol == get_symbol_for_bigram(k, bigram)
  IN [result |-> IF symbol # None THEN <<PartialBefore(symbol)>> ELSE <<>>,
      enc |-> [e EXCEPT !.i_rotation_index = @ + 1]]

_encode_number_sequence(k, number_str) ==
  Concat([d \in 1..Len(number_str) |->
            LET symbol == get_symbol_for_number(k, IntOfDigit(number_str[d]))
            IN IF symbol # None THEN <<symbol>> ELSE <<>>])

\* _encode_final_letter with line 237 replaced by line 229: the bigram of an
\* earlier occurrence is always referenced as partial-before.
RECURSIVE FinalLetterFrom_before(_, _, _, _)
FinalLetterFrom_before(k, word, last_letter, i) ==
  IF i >= Len(word) - 1
  THEN LET symbol == get_symbol_for_bigram(k, <<last_letter, "A">>)
       IN IF symbol # None THEN <<-symbol - 1>> ELSE <<>>
  ELSE LET symbol == get_symbol_for_bigram(k, Slice(word, (i \div 2) * 2, (i \div 2) * 2 + 2))
       IN IF word[i + 1] = last_letter /\ symbol # None
          THEN <<-symbol - 1>>
          ELSE FinalLetterFrom_before(k, word, last_letter, i + 1)

\* The loop of _encode_final_letter from index i on.
RECURSIVE FinalLetterFrom(_, _, _, _)
FinalLetterFrom(k, word, last_letter, i) ==
  IF i >= Len(word) - 1
  THEN LET default_bigram == <<last_letter, "A">>
           symbol == get_symbol_for_bigram(k, default_bigram)
       IN IF symbol # None THEN <<PartialBefore(symbol)>> ELSE <<>>
  ELSE LET bigram_index == i \div 2
           start_idx == bigram_index * 2
           bigram == Slice(word, start_idx, start_idx + 2)
           symbol == get_symbol_for_bigram(k, bigram)
       IN IF word[i + 1] = last_letter /\ start_idx + 1 < Len(word) /\ symbol # None
          THEN IF i % 2 = 0 THEN <<PartialBefore(symbol)>> ELSE <<PartialAfter(symbol)>>
          ELSE FinalLetterFrom(k, word, last_letter, i + 1)

_encode_final_letter(k, word, last_letter) == FinalLetterFrom(k, word, last_letter, 0)

\* for i in range(0, n, 2): the symbol of clean_word[i:i+2], when it has one
EncodeBigrams(k, clean_word, n) ==
  Concat([j \in 1..((n + 1) \div 2) |->
            LET symbol == get_symbol_for_bigram(k, Slice(clean_word, 2 * (j - 1), 2 * j))
            IN IF symbol # None THEN <<symbol>> ELSE <<>>])

_encode_word(k, e, word) ==
  LET clean_word == CleanWord(word)
  IN IF clean_word = <<>> THEN [result |-> <<>>, enc |-> e]
     ELSE IF clean_word = <<"A">> THEN _encode_standalone_a(k, e)
     ELSE IF clean_word = <<"I">> THEN _encode_standalone_i(k, e)
     ELSE IF IsDigitString(clean_word)
          THEN [result |-> _encode_number_sequence(k, clean_word), enc |-> e]
     ELSE IF Len(clean_word) % 2 = 0
          THEN [result |-> EncodeBigrams(k, clean_word, Len(clean_word)), enc |-> e]
          ELSE [result |-> EncodeBigrams(k, clean_word, Len(clean_word) - 1)
                           \o _encode_final_letter(k, clean_word, clean_word[Len(clean_word)]),
                enc |-> e]

\* The loop of _encode_sentence from word i on, r = [result, enc] so far.
RECURSIVE EncodeWordsFrom(_, _, _, _)
EncodeWordsFrom(k, words, i, r) ==
  IF i >= Len(words) THEN r
  ELSE LET encoded_word == _encode_word(k, r.enc, words[i + 1])
           space == _get_space_marker(k, encoded_word.enc)
       IN IF i < Len(words) - 1
          THEN EncodeWordsFrom(k, words, i + 1,
                 [result |-> r.result \o encoded_word.result \o <<space.result>>,
                  enc |-> space.enc])
          ELSE EncodeWordsFrom(k, words, i + 1,
                 [result |-> r.result \o encoded_word.result, enc |-> encoded_word.enc])

_encode_sentence(k, e, sentence) ==
  EncodeWordsFrom(k, split(sentence), 0, [result |-> <<>>, enc |-> e])

\* encode's loop with the sentence-end marker appended after every sentence,
\* the last one and the empty text included
RECURSIVE EncodeSentencesFrom_trailing(_, _, _, _)
EncodeSentencesFrom_trailing(k, sentences, i, r) ==
  IF i >= Len(sentences)
  THEN LET marker == _get_sentence_end_marker(k, r.enc)
       IN [result |-> r.result \o marker.result, enc |-> marker.enc]
  ELSE LET encoded_sentence == _encode_sentence(k, r.enc, sentences[i + 1])
           marker == _get_sentence_end_marker(k, encoded_sentence.enc)
       IN IF i < Len(sentences) - 1
          THEN EncodeSentencesFrom_trailing(k, sentences, i + 1,
                 [result |-> r.result \o encoded_sentence.result \o marker.result,
                  enc |-> marker.enc])
          ELSE EncodeSentencesFrom_trailing(k, sentences, i + 1,
                 [result |-> r.result \o encoded_sentence.result,
                  enc |-> encoded_sentence.enc])

\* The loop of encode from sentence i on, r = [result, enc] so far.
RECURSIVE EncodeSentencesFrom(_, _, _, _)
EncodeSentencesFrom(k, sentences, i, r) ==
  IF i >= Len(sentences) THEN r
  ELSE LET encoded_sentence == _encode_sentence(k, r.enc, sentences[i + 1])
           marker == _get_sentence_end_marker(k, encoded_sentence.enc)
       IN IF i < Len(sentences) - 1
          THEN EncodeSentencesFrom(k, sentences, i + 1,
                 [result |-> r.result \o encoded_sentence.result \o marker.result,
                  enc |-> marker.enc])
          ELSE EncodeSentencesFrom(k, sentences, i + 1,
                 [result |-> r.result \o encoded_sentence.result,
                  enc |-> encoded_sentence.enc])

\* encode without lines 45-47: the call goes on from the counters it finds
encode_noreset(k, e, text) ==
  EncodeSentencesFrom(k, _split_sentences(_preprocess_text(text)), 0,
                      [result |-> <<>>, enc |-> e])

\* encode(plaintext): the counters the call starts from are overwritten with zero.
encode(k, e, text) ==
  LET reset == Counters(0, 0, 0)
      processed == _preprocess_text(text)
      sentences == _split_sentences(processed)
  IN EncodeSentencesFrom(k, sentences, 0, [result |-> <<>>, enc |-> reset])

\* The digits of one operand of encode_math_expression; negative selects -int(digit).
EncodeOperand(k, num, negative) ==
  Concat([d \in 1..Len(num) |->
            IF isdigit(num[d])
            THEN LET symbol == IF negative
                               THEN get_symbol_for_number(k, -IntOfDigit(num[d]))
                               ELSE get_symbol_for_number(k, IntOfDigit(num[d]))
                 IN IF symbol # None THEN <<symbol>> ELSE <<>>
            ELSE <<>>])

\* encode_math_expression starting, as encode does, by zeroing the counters
encode_math_expression_reset(k, e, expression) ==
  LET parts == split(strip(expression))
  IN IF Len(parts) < 3 THEN [result |-> <<>>, enc |-> Counters(0, 0, 0)]
     ELSE [result |-> EncodeOperand(k, parts[1], FALSE)
                      \o (IF get_muldiv_symbol(k) # None THEN <<get_muldiv_symbol(k)>> ELSE <<>>)
                      \o EncodeOperand(k, parts[3], parts[2] = <<"/">>),
           enc |-> Counters(0, 0, 0)]

encode_math_expression(k, e, expression) ==
  LET parts == split(strip(expression))
  IN IF Len(parts) < 3 THEN [result |-> <<>>, enc |-> e]
     ELSE LET num1 == parts[1]
              operator == parts[2]
              num2 == parts[3]
              muldiv_symbol == get_muldiv_symbol(k)
          IN [result |-> EncodeOperand(k, num1, FALSE)
                         \o (IF muldiv_symbol # None THEN <<muldiv_symbol>> ELSE <<>>)
                         \o EncodeOperand(k, num2, operator = <<"/">>),
              enc |-> e]

---------------------------------------------------------------------------
(* decoder.py *)

\* decode's classification of a token: its shape and the symbol it refers to
TokenShape(symbol_idx) ==
  IF symbol_idx < 0 THEN "partial_before"
  ELSE IF symbol_idx >= PARTIAL_AFTER_OFFSET THEN "partial_after"
  ELSE "plain"

\* decode's actual_symbol with -symbol_idx in place of -(symbol_idx + 1)
ActualSymbol_negate(symbol_idx) ==
  IF symbol_idx < 0 THEN -symbol_idx
  ELSE IF symbol_idx >= PARTIAL_AFTER_OFFSET THEN symbol_idx - PARTIAL_AFTER_OFFSET
  ELSE symbol_idx

ActualSymbol(symbol_idx) ==
  IF symbol_idx < 0 THEN -(symbol_idx + 1)
  ELSE IF symbol_idx >= PARTIAL_AFTER_OFFSET THEN symbol_idx - PARTIAL_AFTER_OFFSET
  ELSE symbol_idx

\* decode's loop iteration with the next token resolved like the current one
\* (partial forms included) in the two lookaheads
DecodeAt_resolved(k, tokens, i) ==
  LET symbol_idx == tokens[i + 1]
      meaning == get_meaning_from_symbol(k, ActualSymbol(symbol_idx))
      has_next == i + 1 < Len(tokens)
      next_meaning == IF has_next THEN get_meaning_from_symbol(k, ActualSymbol(tokens[i + 2]))
                      ELSE NoMeaning
      nothing == [text |-> <<>>, skip |-> 0]
  IN IF symbol_idx < 0
     THEN IF meaning # NoMeaning /\ meaning \in DOMAIN k.meaning_to_symbol
          THEN [text |-> <<meaning[1]>>, skip |-> 0] ELSE nothing
     ELSE IF symbol_idx >= PARTIAL_AFTER_OFFSET
     THEN IF meaning # NoMeaning /\ meaning \in DOMAIN k.meaning_to_symbol
          THEN [text |-> <<meaning[2]>>, skip |-> 0] ELSE nothing
     ELSE IF meaning = NoMeaning THEN nothing
     ELSE IF StartsWith(meaning, SPACE_)
          THEN IF has_next /\ next_meaning # NoMeaning /\ StartsWith(next_meaning, SPACE_)
               THEN [text |-> <<".", " ">>, skip |-> 1]
               ELSE [text |-> <<" ">>, skip |-> 0]
     ELSE IF StartsWith(meaning, NUM_NEG_)
          THEN [text |-> AfterLastUnderscore(meaning), skip |-> 0]
     ELSE IF StartsWith(meaning, NUM_)
          THEN [text |-> AfterLastUnderscore(meaning), skip |-> 0]
     ELSE IF meaning = MULTIPLY_DIVIDE_MARKER
          THEN IF has_next /\ next_meaning # NoMeaning /\ StartsWith(next_meaning, NUM_NEG_)
               THEN [text |-> <<" ", "/", " ">>, skip |-> 0]
               ELSE [text |-> <<" ", "*", " ">>, skip |-> 0]
     ELSE IF StartsWith(meaning, SPECIAL_)
          THEN [text |-> AfterFirstUnderscore(meaning), skip |-> 0]
     ELSE IF meaning \in DOMAIN k.meaning_to_symbol
          THEN [text |-> meaning, skip |-> 0]
     ELSE nothing

\* decode's loop iteration with the operand after " / " consumed by the lookahead
DecodeAt_consume(k, tokens, i) ==
  LET symbol_idx == tokens[i + 1]
      meaning == get_meaning_from_symbol(k, ActualSymbol(symbol_idx))
      has_next == i + 1 < Len(tokens)
      next_meaning == IF has_next THEN get_meaning_from_symbol(k, tokens[i + 2])
                      ELSE NoMeaning
      nothing == [text |-> <<>>, skip |-> 0]
  IN IF symbol_idx < 0
     THEN IF meaning # NoMeaning /\ meaning \in DOMAIN k.meaning_to_symbol
          THEN [text |-> <<meaning[1]>>, skip |-> 0] ELSE nothing
     ELSE IF symbol_idx >= PARTIAL_AFTER_OFFSET
     THEN IF meaning # NoMeaning /\ meaning \in DOMAIN k.meaning_to_symbol
          THEN [text |-> <<meaning[2]>>, skip |-> 0] ELSE nothing
     ELSE IF meaning = NoMeaning THEN nothing
     ELSE IF StartsWith(meaning, SPACE_)
          THEN IF has_next /\ next_meaning # NoMeaning /\ StartsWith(next_meaning, SPACE_)
               THEN [text |-> <<".", " ">>, skip |-> 1]
               ELSE [text |-> <<" ">>, skip |-> 0]
     ELSE IF StartsWith(meaning, NUM_NEG_)
          THEN [text |-> AfterLastUnderscore(meaning), skip |-> 0]
     ELSE IF StartsWith(meaning, NUM_)
          THEN [text |-> AfterLastUnderscore(meaning), skip |-> 0]
     ELSE IF meaning = MULTIPLY_DIVIDE_MARKER
          THEN IF has_next /\ next_meaning # NoMeaning /\ StartsWith(next_meaning, NUM_NEG_)
               THEN [text |-> <<" ", "/", " ">>, skip |-> 1]
               ELSE [text |-> <<" ", "*", " ">>, skip |-> 0]
     ELSE IF StartsWith(meaning, SPECIAL_)
          THEN [text |-> AfterFirstUnderscore(meaning), skip |-> 0]
     ELSE IF meaning \in DOMAIN k.meaning_to_symbol
          THEN [text |-> meaning, skip |-> 0]
     ELSE nothing

\* One iteration of decode's loop at index i: the fragment appended to result
\* (empty when nothing is appended) and whether the next token is skipped too.
DecodeAt(k, tokens, i) ==
  LET symbol_idx == tokens[i + 1]
      meaning == get_meaning_from_symbol(k, ActualSymbol(symbol_idx))
      has_next == i + 1 < Len(tokens)
      next_meaning == IF has_next THEN get_meaning_from_symbol(k, tokens[i + 2])
                      ELSE NoMeaning
      nothing == [text |-> <<>>, skip |-> 0]
  IN IF symbol_idx < 0
     THEN IF meaning # NoMeaning /\ meaning \in DOMAIN k.meaning_to_symbol
          THEN [text |-> <<meaning[1]>>, skip |-> 0] ELSE nothing
     ELSE IF symbol_idx >= PARTIAL_AFTER_OFFSET
     THEN IF meaning # NoMeaning /\ meaning \in DOMAIN k.meaning_to_symbol
          THEN [text |-> <<meaning[2]>>, skip |-> 0] ELSE nothing
     ELSE IF meaning = NoMeaning THEN nothing
     ELSE IF StartsWith(meaning, SPACE_)
          THEN IF has_next /\ next_meaning # NoMeaning /\ StartsWith(next_meaning, SPACE_)
               THEN [text |-> <<".", " ">>, skip |-> 1]
               ELSE [text |-> <<" ">>, skip |-> 0]
     ELSE IF StartsWith(meaning, NUM_NEG_)
          THEN [text |-> AfterLastUnderscore(meaning), skip |-> 0]
     ELSE IF StartsWith(meaning, NUM_)
          THEN [text |-> AfterLastUnderscore(meaning), skip |-> 0]
     ELSE IF meaning = MULTIPLY_DIVIDE_MARKER
          THEN IF has_next /\ next_meaning # NoMeaning /\ StartsWith(next_meaning, NUM_NEG_)
               THEN [text |-> <<" ", "/", " ">>, skip |-> 0]
               ELSE [text |-> <<" ", "*", " ">>, skip |-> 0]
     ELSE IF StartsWith(meaning, SPECIAL_)
          THEN [text |-> AfterFirstUnderscore(meaning), skip |-> 0]
     ELSE IF meaning \in DOMAIN k.meaning_to_symbol
          THEN [text |-> meaning, skip |-> 0]
     ELSE nothing

\* decode's loop with the index advanced by 3 after a sentence ending
RECURSIVE DecodeFrom_jump(_, _, _, _)
DecodeFrom_jump(k, tokens, i, result) ==
  IF i >= Len(tokens) THEN result
  ELSE LET d == DecodeAt(k, tokens, i)
       IN DecodeFrom_jump(k, tokens, i + 2 * d.skip + 1, result \o d.text)

\* decode's loop from index i on, with `result` joined so far.
RECURSIVE DecodeFrom(_, _, _, _)
DecodeFrom(k, tokens, i, result) ==
  IF i >= Len(tokens) THEN result
  ELSE LET d == DecodeAt(k, tokens, i)
       IN DecodeFrom(k, tokens, i + d.skip + 1, result \o d.text)

decode(k, tokens) == DecodeFrom(k, tokens, 0, <<>>)

\* The iterations of decode's loop, in order: the index i of each, the fragment
\* appended (empty when none is) and the index after the iteration.
RECURSIVE DecodeTraceFrom(_, _, _, _)
DecodeTraceFrom(k, tokens, i, trace) ==
  IF i >= Len(tokens) THEN trace
  ELSE LET d == DecodeAt(k, tokens, i)
       IN DecodeTraceFrom(k, tokens, i + d.skip + 1,
            Append(trace, [index |-> i, text |-> d.text, next |-> i + d.skip + 1]))

DecodeTrace(k, tokens) == DecodeTraceFrom(k, tokens, 0, <<>>)

\* One iteration of decode_with_symbols' loop at index i: the record appended and
\* whether the next token is skipped too (the svg field is not modelled).
DecodeWithSymbolsAt(k, tokens, i) ==
  LET symbol_idx == tokens[i + 1]
      partial_before == symbol_idx < 0
      partial_after == ~partial_before /\ symbol_idx >= PARTIAL_AFTER_OFFSET
      actual_symbol == IF partial_before THEN -(symbol_idx + 1)
                       ELSE IF partial_after THEN symbol_idx - PARTIAL_AFTER_OFFSET
                       ELSE symbol_idx
      meaning == get_meaning_from_symbol(k, actual_symbol)
      has_next == i + 1 < Len(tokens)
      next_meaning == IF has_next THEN get_meaning_from_symbol(k, tokens[i + 2])
                      ELSE NoMeaning
      record(text) == [symbol_index |-> symbol_idx, actual_symbol |-> actual_symbol,
                       meaning |-> meaning, decoded_text |-> text,
                       partial_before |-> partial_before, partial_after |-> partial_after]
      out(text, skip) == [record |-> record(text), skip |-> skip]
  IN IF meaning = NoMeaning THEN out(<<>>, 0)
     ELSE IF partial_before /\ meaning \in DOMAIN k.meaning_to_symbol
          THEN out(<<meaning[1]>>, 0)
     ELSE IF partial_after /\ meaning \in DOMAIN k.meaning_to_symbol
          THEN out(<<meaning[2]>>, 0)
     ELSE IF StartsWith(meaning, SPACE_)
          THEN IF has_next /\ next_meaning # NoMeaning /\ StartsWith(next_meaning, SPACE_)
               THEN out(<<".", " ">>, 1)
               ELSE out(<<" ">>, 0)
     ELSE IF StartsWith(meaning, NUM_NEG_) THEN out(AfterLastUnderscore(meaning), 0)
     ELSE IF StartsWith(meaning, NUM_) THEN out(AfterLastUnderscore(meaning), 0)
     ELSE IF meaning = MULTIPLY_DIVIDE_MARKER
          THEN IF has_next /\ next_meaning # NoMeaning /\ StartsWith(next_meaning, NUM_NEG_)
               THEN out(<<" ", "/", " ">>, 0)
               ELSE out(<<" ", "*", " ">>, 0)
     ELSE IF StartsWith(meaning, SPECIAL_) THEN out(AfterFirstUnderscore(meaning), 0)
     ELSE out(meaning, 0)

\* decode_with_symbols' loop with line 160 left out: the marker after a sentence
\* end gets a record of its own
RECURSIVE DecodeWithSymbolsFrom_each(_, _, _, _)
DecodeWithSymbolsFrom_each(k, tokens, i, result) ==
  IF i >= Len(tokens) THEN result
  ELSE LET d == DecodeWithSymbolsAt(k, tokens, i)
       IN DecodeWithSymbolsFrom_each(k, tokens, i + 1, Append(result, d.record))

\* decode_with_symbols' loop from index i on, with the records appended so far
RECURSIVE DecodeWithSymbolsFrom(_, _, _, _)
DecodeWithSymbolsFrom(k, tokens, i, result) ==
  IF i >= Len(tokens) THEN result
  ELSE LET d == DecodeWithSymbolsAt(k, tokens, i)
       IN DecodeWithSymbolsFrom(k, tokens, i + d.skip + 1, Append(result, d.record))

decode_with_symbols(k, tokens) == DecodeWithSymbolsFrom(k, tokens, 0, <<>>)

---------------------------------------------------------------------------
(* Encoded-message files: encoder.py save_encoded_message /                 *)
(* load_encoded_message, decoder.py load_and_decode                         *)

\* sep.join(parts)
RECURSIVE join(_, _)
join(sep, parts) ==
  IF parts = <<>> THEN <<>>
  ELSE IF Len(parts) = 1 THEN parts[1]
  ELSE parts[1] \o sep \o join(sep, Tail(parts))

\* s.split(sep) for a one-character sep: the segments between the separators,
\* the empty ones included ("" gives [""])
RECURSIVE SplitSepFrom(_, _, _, _, _)
SplitSepFrom(s, sep, i, current, parts) ==
  IF i > Len(s) THEN Append(parts, current)
  ELSE IF s[i] = sep THEN SplitSepFrom(s, sep, i + 1, <<>>, Append(parts, current))
  ELSE SplitSepFrom(s, sep, i + 1, Append(current, s[i]), parts)

split_sep(s, sep) == SplitSepFrom(s, sep, 1, <<>>, <<>>)

\* value of a string of decimal digits
RECURSIVE IntOfDigits(_)
IntOfDigits(d) ==
  IF d = <<>> THEN 0
  ELSE 10 * IntOfDigits(SubSeq(d, 1, Len(d) - 1)) + IntOfDigit(d[Len(d)])

\* int(x) for a str x: surrounding whitespace is dropped, then an optional sign
\* and decimal digits are read; anything else raises ValueError (ok = FALSE)
int(x) ==
  LET stripped == strip(x)
      signed == stripped # <<>> /\ stripped[1] \in {"-", "+"}
      digits == IF signed THEN Tail(stripped) ELSE stripped
      magnitude == IF IsDigitString(digits) THEN IntOfDigits(digits) ELSE 0
  IN [ok |-> IsDigitString(digits),
      value |-> IF signed /\ stripped[1] = "-" THEN -magnitude ELSE magnitude]

\* save_encoded_message(encoded, filepath): the text written to the file
save_encoded_message(tokens) ==
  join(<<",">>, [j \in 1..Len(tokens) |-> str(tokens[j])])

\* the list comprehension of encoder.py:405 and decoder.py:209 over the segments
\* kept: the ints, or ValueError from the first segment int() rejects
IntsOf(segments) ==
  LET parsed == [j \in 1..Len(segments) |-> int(segments[j])]
  IN IF \A j \in 1..Len(parsed) : parsed[j].ok
     THEN [result |-> [j \in 1..Len(parsed) |-> parsed[j].value], error |-> "none"]
     ELSE [result |-> <<>>, error |-> "ValueError"]

\* load_encoded_message without the test `if x.strip()` of line 405
load_encoded_message_all(file_content) ==
  IntsOf(split_sep(strip(file_content), ","))

\* load_encoded_message(filepath) on a file holding file_content
load_encoded_message(file_content) ==
  LET stripped == strip(file_content)
      segments == split_sep(stripped, ",")
  IN IntsOf(SelectSeq(segments, LAMBDA x : strip(x) # <<>>))

\* load_and_decode(filepath) on a file holding file_content
load_and_decode(k, file_content) ==
  LET stripped == strip(file_content)
      parsed == IntsOf(SelectSeq(split_sep(stripped, ","), LAMBDA x : strip(x) # <<>>))
  IN IF parsed.error # "none" THEN [result |-> <<>>, error |-> parsed.error]
     ELSE [result |-> decode(k, parsed.result), error |-> "none"]

---------------------------------------------------------------------------
(* Key files: key_manager.py save_key / load_key.  A JSON object is the set *)
(* of its <<name, value>> members; names are strings.  The fields created,  *)
(* symbols_svg and version of the key are not modelled.                     *)

\* json.dump of a dict with int keys: each key is written as str(key)
JsonIntKeyed(d) == {<<str(i), d[i]>> : i \in DOMAIN d}

\* json.dump of a dict with str keys
JsonStrKeyed(d) == {<<m, d[m]>> : m \in DOMAIN d}

\* the dict built from <<key, value>> pairs with distinct keys
DictOf(pairs) ==
  [x \in {p[1] : p \in pairs} |-> (CHOOSE p \in pairs : p[1] = x)[2]]

\* save_key(key): the JSON object written by json.dump(key, f, indent=2)
save_key(k) ==
  [recipient |-> k.recipient,
   seed |-> k.seed,
   symbol_to_meaning |-> JsonIntKeyed(k.symbol_to_meaning),
   meaning_to_symbol |-> JsonStrKeyed(k.meaning_to_symbol)]

\* load_key reading only the first character of each index of symbol_to_meaning
load_key_first(file) ==
  [recipient |-> file.recipient,
   seed |-> file.seed,
   symbol_to_meaning |->
     DictOf({<<IntOfDigit(p[1][1]), p[2]>> : p \in
              {q \in file.symbol_to_meaning :
                 \A r \in file.symbol_to_meaning : r[1][1] = q[1][1] => Len(q[1]) >= Len(r[1])}}),
   meaning_to_symbol |-> DictOf(file.meaning_to_symbol)]

\* load_key(filepath) on a file holding the JSON object `file`: json.load, then
\* {int(k): v for k, v in key['symbol_to_meaning'].items()}
load_key(file) ==
  [recipient |-> file.recipient,
   seed |-> file.seed,
   symbol_to_meaning |-> DictOf({<<int(p[1]).value, p[2]>> : p \in file.symbol_to_meaning}),
   meaning_to_symbol |-> DictOf(file.meaning_to_symbol)]

---------------------------------------------------------------------------
(* Bounds of the key-generation specification *)

\* generate_key is called at most MaxCalls times
MaxCalls == 3

\* explicit seeds are 0, ..., MaxSeed
MaxSeed == 0

Seeds == 0..MaxSeed

Labels == {"alice", "bob"}

\* States the process-wide generator may be in when the program starts
\* (it is seeded from the operating system).
StartRng == {11, 12}

NoKey == [recipient |-> "", seed |-> 0, symbol_to_meaning |-> <<>>,
          meaning_to_symbol |-> <<>>]

\* no key file has been written
NoKeyFile == [recipient |-> "", seed |-> 0, symbol_to_meaning |-> {},
              meaning_to_symbol |-> {}]

---------------------------------------------------------------------------
(* Key generation: a KeyManager whose generate_key is called repeatedly *)

\* nothing decoded in detail, no file written, nothing loaded
InitFiles ==
  /\ records = <<>>
  /\ content = <<>>
  /\ loaded = <<>>
  /\ key_file = NoKeyFile
  /\ loaded_key = NoKey

InitCodec ==
  /\ space_marker_index = 0
  /\ a_rotation_index = 0
  /\ i_rotation_index = 0
  /\ last = "new"
  /\ origin = "none"
  /\ plaintext = <<>>
  /\ encoded = <<>>
  /\ decoded = <<>>
  /\ special_extra = 0
  /\ error = "none"
  /\ calls = 0
  /\ entry_counters = [space_marker_index |-> 0, a_rotation_index |-> 0,
                       i_rotation_index |-> 0]
  /\ instances = <<>>
  /\ threads = <<>>
  /\ InitFiles

InitKey ==
  /\ rng \in StartRng
  /\ key = NoKey
  /\ key_log = <<>>
  /\ InitCodec

GenerateKey(recipient_name, seed) ==
  /\ Len(key_log) < MaxCalls
  /\ \E g \in {generate_key(rng, recipient_name, seed)} :
        /\ key' = g.key
        /\ rng' = g.rng
        /\ key_log' = Append(key_log, g.key)
  /\ UNCHANGED <<encoderVars, ioVars, extVars>>

GenerateKeyUnseeded(recipient_name) ==
  /\ Len(key_log) < MaxCalls
  /\ \E g \in {generate_key_unseeded(rng, recipient_name)} :
        /\ key' = g.key
        /\ rng' = g.rng
        /\ key_log' = Append(key_log, g.key)
  /\ UNCHANGED <<encoderVars, ioVars, extVars>>

NextKey ==
  \/ \E r \in Labels, seed \in Seeds : GenerateKey(r, seed)
  \/ \E r \in Labels : GenerateKeyUnseeded(r)

SpecKey == InitKey /\ [][NextKey]_vars

---------------------------------------------------------------------------
(* Bounds and inputs of the codec specification *)

\* raw texts: every string over RawChars of at most MaxRawLen characters
MaxRawLen == 5
RawChars == {"A", " ", ".", "-"}

\* words of letters: at most MaxWordLen letters of WordLetters
MaxWordLen == 3
WordLetters == {"A", "I"}

\* words of digits and operands: at most MaxDigits digits of WordDigits
MaxDigits == 2
WordDigits == {"0", "7"}

\* runs of standalone words "A" and "I": at most MaxRun words
MaxRun == 27

\* seeds of the keys the codec is constructed with
CodecSeeds == {0, 42}

StringsOver(chars, lo, hi) == UNION {[1..n -> chars] : n \in lo..hi}

RawTexts == StringsOver(RawChars, 0, MaxRawLen)
LetterWords == StringsOver(WordLetters, 1, MaxWordLen)
DigitWords == StringsOver(WordDigits, 1, MaxDigits)
Words == LetterWords \cup DigitWords

\* one word, or two words separated by one space
WordTexts == Words \cup {w1 \o <<" ">> \o w2 : w1 \in Words, w2 \in Words}

\* n words, alternately c1 and c2, separated by single spaces
RunText(c1, c2, n) ==
  [k \in 1..(2 * n - 1) |->
     IF k % 2 = 0 THEN " " ELSE IF k % 4 = 1 THEN c1 ELSE c2]

RunTexts == {RunText(c1, c2, n) : c1 \in {"A", "I"}, c2 \in {"A", "I"}, n \in 1..MaxRun}

\* two sentences, each one or two words and a terminator
SentenceBodies == { <<"T", "O">>, <<"a", "t">>, <<"O", "N", "E", " ", "I">>, <<"I", " ", "-">> }
SentenceTexts ==
  {s1 \o <<t1>> \o sep \o s2 \o t2 :
     s1 \in SentenceBodies, t1 \in {".", "!", "?"}, sep \in {<<>>, <<" ">>},
     s2 \in SentenceBodies, t2 \in {<<>>, <<".">>, <<"?">>}}

\* words of odd length over the whole alphabet
OddWords ==
  { <<"T">>, <<"C", "A", "T">>, <<"D", "A", "D">>, <<"H", "E", "L", "L", "O">>,
    <<"A", "B", "C", "D", "B">>, <<"Z", "Z", "Z">> }

Texts == RawTexts \cup WordTexts \cup RunTexts \cup SentenceTexts \cup OddWords

\* number operator number
Operators == {"*", "/", "+"}
Expressions ==
  {n1 \o <<" ", op, " ">> \o n2 : n1 \in DigitWords, op \in Operators, n2 \in DigitWords}

---------------------------------------------------------------------------
(* The codec: one BigramEncoder and one BigramDecoder constructed with the *)
(* same key; a text or an expression is encoded, then the tokens decoded.  *)

Init ==
  /\ \E st \in StartRng, seed \in CodecSeeds :
       \E g \in {generate_key(st, "alice", seed)} :
          /\ rng = g.rng
          /\ key = g.key
          /\ key_log = <<g.key>>
  /\ InitCodec

Encode(text) ==
  /\ last = "new"
  /\ \E r \in {encode(key, Counters(space_marker_index, a_rotation_index,
                                      i_rotation_index), text)} :
        /\ encoded' = r.result
        /\ space_marker_index' = r.enc.space_marker_index
        /\ a_rotation_index' = r.enc.a_rotation_index
        /\ i_rotation_index' = r.enc.i_rotation_index
  /\ plaintext' = text
  /\ last' = "encode"
  /\ origin' = "encode"
  /\ UNCHANGED <<keyVars, decoded, extVars>>

EncodeMathExpression(expression) ==
  /\ last = "new"
  /\ \E r \in {encode_math_expression(key, Counters(space_marker_index,
                                           a_rotation_index, i_rotation_index), expression)} :
        /\ encoded' = r.result
        /\ space_marker_index' = r.enc.space_marker_index
        /\ a_rotation_index' = r.enc.a_rotation_index
        /\ i_rotation_index' = r.enc.i_rotation_index
  /\ plaintext' = expression
  /\ last' = "encode_math_expression"
  /\ origin' = "encode_math_expression"
  /\ UNCHANGED <<keyVars, decoded, extVars>>

Decode ==
  /\ last \in {"encode", "encode_math_expression"}
  /\ decoded' = decode(key, encoded)
  /\ last' = "decode"
  /\ UNCHANGED <<keyVars, encoderVars, origin, plaintext, encoded, extVars>>

Next ==
  \/ \E text \in Texts : Encode(text)
  \/ \E expression \in Expressions : EncodeMathExpression(expression)
  \/ Decode

Spec == Init /\ [][Next]_vars

---------------------------------------------------------------------------
(* Properties *)

\* words joined by single spaces
RECURSIVE JoinWords(_)
JoinWords(ws) ==
  IF ws = <<>> THEN <<>>
  ELSE IF Len(ws) = 1 THEN ws[1]
  ELSE ws[1] \o <<" ">> \o JoinWords(Tail(ws))

IsLetterWord(w) == w # <<>> /\ \A j \in 1..Len(w) : w[j] \in Range(LETTERS)

\* an upper-case text that is one sentence of letter words and digit words
\* separated by single spaces
IsWordSentence(t) ==
  LET ws == split(t)
  IN /\ ws # <<>>
     /\ JoinWords(ws) = t
     /\ \A j \in 1..Len(ws) : IsLetterWord(ws[j]) \/ IsDigitString(ws[j])

\* C1: decoding the tokens of encode(text) gives back text, for every text that is
\* one sentence of words separated by single spaces, each word letters only
\* (standalone "A" and "I" included) or digits only.
C1_RoundTrip ==
  (last = "decode" /\ origin = "encode" /\ IsWordSentence(plaintext))
    => decoded = plaintext

C1_Witness ==
  /\ last = "decode"
  /\ origin = "encode"
  /\ plaintext = <<"A", "I", "A", " ", "7", "0">>
  /\ decoded = plaintext

\* The meaning universe as the claim lists it
ClaimedUniverse ==
  {<<a, b>> : a \in Range(LETTERS), b \in Range(LETTERS)}
  \cup {NUM_ \o <<d>> : d \in Range(DIGITS)}
  \cup {NUM_NEG_ \o <<d>> : d \in Range(DIGITS)}
  \cup {MULTIPLY_DIVIDE_MARKER}
  \cup {SPECIAL_ \o <<c>> : c \in Range(SPECIAL_CHARS)}
  \cup {SPACE_ \o m : m \in Range(SPACE_MARKERS)}

\* C2: in every key generate_key returns, symbol_to_meaning and meaning_to_symbol
\* are inverse bijections between 0..TOTAL_SYMBOLS-1 and the meaning universe.
C2_Bijective ==
  key # NoKey =>
    LET s2m == key.symbol_to_meaning
        m2s == key.meaning_to_symbol
    IN /\ Cardinality(ClaimedUniverse) = TOTAL_SYMBOLS
       /\ DOMAIN s2m = 0..(TOTAL_SYMBOLS - 1)
       /\ DOMAIN m2s = ClaimedUniverse
       /\ \A i \in DOMAIN s2m : m2s[s2m[i]] = i
       /\ \A m \in ClaimedUniverse : s2m[m2s[m]] = m
       /\ Cardinality({m2s[m] : m \in ClaimedUniverse}) = Cardinality(ClaimedUniverse)

C2_Witness ==
  /\ Len(key_log) = 2
  /\ key_log[1].seed \in Seeds
  /\ key = key_log[2]
  /\ key.seed \notin Seeds
  /\ key.symbol_to_meaning # key_log[1].symbol_to_meaning

\* C3: two generate_key calls with the same seed return the same two mappings,
\* whatever calls were made between them.
C3_Deterministic ==
  \A i \in 1..Len(key_log), j \in 1..Len(key_log) :
    key_log[i].seed = key_log[j].seed =>
      /\ key_log[i].symbol_to_meaning = key_log[j].symbol_to_meaning
      /\ key_log[i].meaning_to_symbol = key_log[j].meaning_to_symbol

C3_Witness ==
  /\ Len(key_log) = 3
  /\ key_log[1].seed = key_log[3].seed
  /\ key_log[2].seed # key_log[1].seed
  /\ key_log[2].symbol_to_meaning # key_log[1].symbol_to_meaning
  /\ key_log[1].symbol_to_meaning = key_log[3].symbol_to_meaning

\* the number of tokens of a sequence that are partial tokens
PartialCount(tokens) ==
  Cardinality({j \in 1..Len(tokens) : TokenShape(tokens[j]) # "plain"})

\* a letters-only word of odd length other than the standalone words
IsOddLetterWord(w) ==
  IsLetterWord(w) /\ Len(w) % 2 = 1 /\ w # <<"A">> /\ w # <<"I">>

\* the 0-based positions before the last one where the last letter of w occurs
EarlierOccurrences(w) == {i \in 0..(Len(w) - 2) : w[i + 1] = w[Len(w)]}

Min(S) == CHOOSE x \in S : \A y \in S : x <= y

IsStandaloneRun(t) ==
  /\ IsWordSentence(t)
  /\ \A j \in 1..Len(t) : t[j] \in {"A", "I", " "}
  /\ \A j \in 1..(Len(t) - 1) : t[j] = " " \/ t[j + 1] = " "

\* how many of the words before the j-th one (j from 1) are the letter c
Earlier(t, c, j) == Cardinality({m \in 1..(j - 1) : t[2 * m - 1] = c})

\* C5: in one encode call the k-th standalone "A" (k from 0) is the partial-before
\* token of the bigram "A" + LETTERS[k mod 26] and the k-th standalone "I" that of
\* "I" + LETTERS[k mod 26], each letter counted on its own; two of fewer than 26
\* apart reference different symbols, and each decodes to its letter.
C5_Rotation ==
  (origin = "encode" /\ IsStandaloneRun(plaintext)) =>
    LET t == plaintext
        n == (Len(t) + 1) \div 2
    IN /\ Len(encoded) = 2 * n - 1
       /\ \A j \in 1..n :
            LET c == t[2 * j - 1]
                k == Earlier(t, c, j)
            IN /\ encoded[2 * j - 1] = -key.meaning_to_symbol[<<c, LETTERS[(k % 26) + 1]>>] - 1
               /\ decode(key, <<encoded[2 * j - 1]>>) = <<c>>
       /\ \A j1 \in 1..n, j2 \in 1..n :
            (/\ j1 < j2
             /\ t[2 * j1 - 1] = t[2 * j2 - 1]
             /\ Earlier(t, t[2 * j2 - 1], j2) - Earlier(t, t[2 * j1 - 1], j1) < 26)
            => encoded[2 * j1 - 1] # encoded[2 * j2 - 1]
       /\ a_rotation_index = Earlier(t, "A", n + 1)
       /\ i_rotation_index = Earlier(t, "I", n + 1)
       /\ last = "decode" => decoded = t

C5_Witness ==
  /\ last = "decode"
  /\ origin = "encode"
  /\ plaintext = RunText("A", "I", 5)
  /\ a_rotation_index = 3
  /\ i_rotation_index = 2
  /\ encoded[9] = -key.meaning_to_symbol[<<"A", "C">>] - 1
  /\ encoded[3] = -key.meaning_to_symbol[<<"I", "A">>] - 1
  /\ decoded = plaintext

\* the sentences the segmenter splits a text into
SentencesOf(text) == _split_sentences(_preprocess_text(text))

\* encode's result and counters once the first m sentences of a text are encoded
EncodedPrefix(k, text, m) ==
  EncodeSentencesFrom(k, SubSeq(SentencesOf(text), 1, m), 0,
                      [result |-> <<>>, enc |-> Counters(0, 0, 0)])

\* the space-marker symbol of rotation position idx
SpaceSymbolAt(k, idx) ==
  k.meaning_to_symbol[SPACE_ \o SPACE_MARKERS[(idx % Len(SPACE_MARKERS)) + 1]]

\* The encoder's half of C6: between sentence m and sentence m+1 stand exactly the
\* two space markers of the next two rotation positions, and the tokens end with
\* those of the last sentence.
SentenceMarkersInserted ==
  origin = "encode" =>
    LET n == Len(SentencesOf(plaintext))
    IN /\ \A m \in 1..(n - 1) :
            LET pre == EncodedPrefix(key, plaintext, m)
                p == Len(pre.result)
                nxt == EncodedPrefix(key, plaintext, m + 1)
                body == _encode_sentence(key, Counters(pre.enc.space_marker_index + 2,
                          pre.enc.a_rotation_index, pre.enc.i_rotation_index),
                          SentencesOf(plaintext)[m + 1])
            IN /\ SubSeq(encoded, 1, p) = pre.result
               /\ Len(encoded) >= p + 2
               /\ encoded[p + 1] = SpaceSymbolAt(key, pre.enc.space_marker_index)
               /\ encoded[p + 2] = SpaceSymbolAt(key, pre.enc.space_marker_index + 1)
               /\ nxt.result = pre.result \o <<encoded[p + 1], encoded[p + 2]>> \o body.result
       /\ encoded = EncodedPrefix(key, plaintext, n).result

\* The decoder's half of C6: the pair after sentence m is rendered as the one
\* fragment ". " between the text of the tokens before it and of those after it.
SentenceMarkersRendered ==
  (origin = "encode" /\ last = "decode") =>
    \A m \in 1..(Len(SentencesOf(plaintext)) - 1) :
      LET p == Len(EncodedPrefix(key, plaintext, m).result)
      IN decoded = decode(key, SubSeq(encoded, 1, p)) \o <<".", " ">>
                   \o decode(key, SubSeq(encoded, p + 3, Len(encoded)))

\* C6: encode puts exactly two consecutive space-marker tokens, of the next two
\* rotation positions, between the tokens of consecutive sentences and none after
\* the last sentence, and decode renders each such pair as the fragment ". ".
C6_MarkerDoubling == SentenceMarkersInserted /\ SentenceMarkersRendered

\* the text "A -.A" is decoded as "A.  A": the marker after the word "A" and the
\* first marker of the pair are read as the sentence boundary
C6_Observed ==
  /\ last = "decode"
  /\ origin = "encode"
  /\ plaintext = <<"A", " ", "-", ".", "A">>
  /\ Len(encoded) = 5
  /\ decoded = <<"A", ".", " ", " ", "A">>

\* a well-formed expression: digits, one space, an operator, one space, digits
MathParts(expression) == split(strip(expression))

\* C7: for digit strings n1, n2 and an operator * or /, decoding the tokens of
\* encode_math_expression(n1 op n2) gives back n1 op n2.
C7_MathRoundTrip ==
  (/\ last = "decode"
   /\ origin = "encode_math_expression"
   /\ MathParts(plaintext)[2] \in {<<"*">>, <<"/">>})
  => decoded = plaintext

C7_Observed ==
  /\ last = "decode"
  /\ origin = "encode_math_expression"
  /\ plaintext = <<"7", " ", "/", " ", "0">>
  /\ decoded = <<"7", " ", "*", " ", "0">>

\* the symbols of the digits of num, each as NUM_d or each as NUM_NEG_d
DigitSymbols(k, num, negative) ==
  [d \in 1..Len(num) |->
     k.meaning_to_symbol[(IF negative THEN NUM_NEG_ ELSE NUM_) \o <<num[d]>>]]

\* C8: the tokens of encode_math_expression(n1 op n2) are the symbols NUM_d of the
\* digits of n1, the MULDIV symbol, and the symbols of the digits of n2: NUM_NEG_d
\* when op is "/", NUM_d otherwise.
C8_DivisionSign ==
  origin = "encode_math_expression" =>
    LET parts == MathParts(plaintext)
    IN encoded = DigitSymbols(key, parts[1], FALSE)
                 \o <<key.meaning_to_symbol[MULTIPLY_DIVIDE_MARKER]>>
                 \o DigitSymbols(key, parts[3], parts[2] = <<"/">>)

C8_Observed ==
  /\ origin = "encode_math_expression"
  /\ plaintext = <<"7", " ", "/", " ", "0">>
  /\ encoded[3] = key.meaning_to_symbol[NUM_ \o <<"0">>]

\* the three token ranges for N = TOTAL_SYMBOLS
BeforeRange == (-TOTAL_SYMBOLS)..(-1)
PlainRange == 0..(TOTAL_SYMBOLS - 1)
AfterRange == 10000..(10000 + TOTAL_SYMBOLS - 1)

\* C9: every token of encode and of encode_math_expression lies in exactly one of
\* the ranges [-N, -1], [0, N) and [10000, 10000 + N), which are pairwise disjoint
\* as N < 10000; decode's classification of the token the encoder builds for a
\* symbol in each shape gives back that shape and that symbol.
C9_TokenShapes ==
  /\ TOTAL_SYMBOLS < 10000
  /\ \A v \in BeforeRange : v \notin PlainRange /\ v \notin AfterRange
  /\ \A v \in PlainRange : v \notin AfterRange
  /\ \A j \in 1..Len(encoded) :
       /\ Cardinality({R \in {"before", "plain", "after"} :
                          \/ R = "before" /\ encoded[j] \in BeforeRange
                          \/ R = "plain" /\ encoded[j] \in PlainRange
                          \/ R = "after" /\ encoded[j] \in AfterRange}) = 1
       /\ TokenShape(encoded[j]) = "partial_before" <=> encoded[j] \in BeforeRange
       /\ TokenShape(encoded[j]) = "plain" <=> encoded[j] \in PlainRange
       /\ TokenShape(encoded[j]) = "partial_after" <=> encoded[j] \in AfterRange
       /\ ActualSymbol(encoded[j]) \in PlainRange
  /\ \A symbol \in PlainRange :
       /\ TokenShape(PartialBefore(symbol)) = "partial_before"
       /\ ActualSymbol(PartialBefore(symbol)) = symbol
       /\ TokenShape(symbol) = "plain"
       /\ ActualSymbol(symbol) = symbol
       /\ TokenShape(PartialAfter(symbol)) = "partial_after"
       /\ ActualSymbol(PartialAfter(symbol)) = symbol

C9_Witness ==
  /\ origin = "encode"
  /\ plaintext = <<"I", "A", "A", " ", "A">>
  /\ Len(encoded) = 4
  /\ TokenShape(encoded[1]) = "plain"
  /\ TokenShape(encoded[2]) = "partial_after"
  /\ TokenShape(encoded[4]) = "partial_before"
  /\ ActualSymbol(encoded[2]) = encoded[1]

\* C10: encode("") returns no token and decode([]) returns the empty string.
C10_Empty ==
  /\ (origin = "encode" /\ plaintext = <<>>) => encoded = <<>>
  /\ (last = "decode" /\ encoded = <<>>) => decoded = <<>>
  /\ decode(key, encode(key, Counters(0, 0, 0), <<>>).result) = <<>>

C10_Witness ==
  /\ last = "decode"
  /\ origin = "encode"
  /\ plaintext = <<>>
  /\ encoded = <<>>
  /\ decoded = <<>>

---------------------------------------------------------------------------
(* Key generation over a universe that grows: strings are appended to the  *)
(* list constants.SPECIAL_CHARS, then generate_key is called.               *)

\* at most MaxSmallExtend strings are appended one by one
MaxSmallExtend == 48

\* the universe may exceed the partial-after offset by at most MaxOver items
MaxOver == 0

\* the number of appended strings that brings the universe to one below the offset
NearOffset == PARTIAL_AFTER_OFFSET - TOTAL_SYMBOLS - 1

ExtendSizes == {1, NearOffset}

InitUniverse == InitKey

\* constants.SPECIAL_CHARS.extend(n strings)
ExtendSpecialChars(n) ==
  /\ key = NoKey
  /\ \/ special_extra + n <= MaxSmallExtend
     \/ /\ special_extra + n >= NearOffset
        /\ special_extra + n <= NearOffset + 1 + MaxOver
  /\ special_extra' = special_extra + n
  /\ UNCHANGED <<keyVars, encoderVars, ioVars, error, calls, entry_counters,
                 instances, threads, fileVars>>

\* generate_key(recipient_name, seed) with the list as it is now
GenerateKeyWith(recipient_name, seed) ==
  /\ key = NoKey
  /\ \E g \in {generate_key_with(special_extra, rng, recipient_name, seed)} :
        /\ key' = g.key
        /\ rng' = g.rng
        /\ error' = g.error
  /\ last' = "generate_key"
  /\ UNCHANGED <<key_log, encoderVars, origin, plaintext, encoded, decoded, special_extra,
                 calls, entry_counters, instances, threads, fileVars>>

NextUniverse ==
  \/ \E n \in ExtendSizes : ExtendSpecialChars(n)
  \/ GenerateKeyWith("alice", 0)

SpecUniverse == InitUniverse /\ [][NextUniverse]_vars

\* the number of items of the universe generate_key is called with
UniverseSize == TOTAL_SYMBOLS + special_extra

\* C11: a generate_key call over a universe of 10000 or more items raises a
\* construction error and returns no key.
C11_Rejected ==
  (last = "generate_key" /\ UniverseSize >= PARTIAL_AFTER_OFFSET)
    => (error # "none" /\ key = NoKey)

\* a key of 10000 symbols is returned; the plain token 10000 - 1 + 1 of its last
\* symbol's partial-after form and the first symbol's partial-after token 10000
\* are then both in the decoder's partial-after range
C11_Observed ==
  /\ last = "generate_key"
  /\ error = "none"
  /\ UniverseSize = PARTIAL_AFTER_OFFSET
  /\ DOMAIN key.symbol_to_meaning = 0..(PARTIAL_AFTER_OFFSET - 1)
  /\ Cardinality(DOMAIN key.meaning_to_symbol) = PARTIAL_AFTER_OFFSET

---------------------------------------------------------------------------
(* One BigramEncoder instance on which encode and encode_math_expression   *)
(* are called one after the other.                                          *)

\* at most MaxEncodeCalls calls are made on the instance
MaxEncodeCalls == 3

CallTexts ==
  { <<>>, <<"A">>, <<"A", " ", "I", " ", "A">>, <<"I", " ", "I">>,
    <<"A", "T", " ", "I", "T">>, <<"T", "O", ".", " ", "B", "E">>,
    <<"7", " ", "A">> }

\* expressions of three parts and more, and of fewer than three parts
CallExpressions ==
  { <<"7", " ", "*", " ", "0">>, <<"7", "0", " ", "/", " ", "7">>,
    <<"7", " ", "+", " ", "7", " ", "7">>,
    <<>>, <<" ">>, <<"7">>, <<"7", " ", "*">>, <<"7", "*", "0">>, <<" ", "7", " ", "/", " ">> }

InitCalls == Init

\* encoder.encode(text)
EncodeCall(text) ==
  /\ calls < MaxEncodeCalls
  /\ \E r \in {encode(key, Counters(space_marker_index, a_rotation_index,
                                      i_rotation_index), text)} :
        /\ encoded' = r.result
        /\ space_marker_index' = r.enc.space_marker_index
        /\ a_rotation_index' = r.enc.a_rotation_index
        /\ i_rotation_index' = r.enc.i_rotation_index
  /\ entry_counters' = Counters(space_marker_index, a_rotation_index, i_rotation_index)
  /\ calls' = calls + 1
  /\ plaintext' = text
  /\ last' = "encode"
  /\ origin' = "encode"
  /\ error' = "none"
  /\ UNCHANGED <<keyVars, decoded, special_extra, instances, threads, fileVars>>

\* encoder.encode_math_expression(expression)
EncodeMathCall(expression) ==
  /\ calls < MaxEncodeCalls
  /\ \E r \in {encode_math_expression(key, Counters(space_marker_index,
                                           a_rotation_index, i_rotation_index), expression)} :
        /\ encoded' = r.result
        /\ space_marker_index' = r.enc.space_marker_index
        /\ a_rotation_index' = r.enc.a_rotation_index
        /\ i_rotation_index' = r.enc.i_rotation_index
  /\ entry_counters' = Counters(space_marker_index, a_rotation_index, i_rotation_index)
  /\ calls' = calls + 1
  /\ plaintext' = expression
  /\ last' = "encode_math_expression"
  /\ origin' = "encode_math_expression"
  /\ error' = "none"
  /\ UNCHANGED <<keyVars, decoded, special_extra, instances, threads, fileVars>>

NextCalls ==
  \/ \E text \in CallTexts : EncodeCall(text)
  \/ \E expression \in CallExpressions : EncodeMathCall(expression)

SpecCalls == InitCalls /\ [][NextCalls]_vars

\* the result and the counters of encode(text) on a BigramEncoder just constructed
FreshEncode(k, text) ==
  EncodeSentencesFrom(k, _split_sentences(_preprocess_text(text)), 0,
                      [result |-> <<>>, enc |-> Counters(0, 0, 0)])

\* C12: whatever encode and encode_math_expression calls were made before on the
\* instance, encode(text) returns the tokens a fresh encoder returns for text, and
\* leaves the counters a fresh encoder leaves.
C12_PerCallReset ==
  origin = "encode" =>
    /\ encoded = FreshEncode(key, plaintext).result
    /\ Counters(space_marker_index, a_rotation_index, i_rotation_index)
         = FreshEncode(key, plaintext).enc

C12_Witness ==
  /\ origin = "encode"
  /\ calls = 3
  /\ entry_counters.space_marker_index = 2
  /\ entry_counters.a_rotation_index = 2
  /\ entry_counters.i_rotation_index = 1
  /\ plaintext = <<"I", " ", "I">>
  /\ encoded[1] = -key.meaning_to_symbol[<<"I", "A">>] - 1
  /\ encoded[2] = key.meaning_to_symbol[SPACE_ \o SPACE_MARKERS[1]]
  /\ i_rotation_index = 2

\* C15: encode_math_expression of an expression with fewer than three
\* whitespace-separated parts returns no token, raises nothing and leaves the three
\* rotation counters as it found them.
C15_Malformed ==
  (origin = "encode_math_expression" /\ Len(MathParts(plaintext)) < 3) =>
    /\ encoded = <<>>
    /\ error = "none"
    /\ Counters(space_marker_index, a_rotation_index, i_rotation_index) = entry_counters

C15_Witness ==
  /\ origin = "encode_math_expression"
  /\ calls = 2
  /\ plaintext = <<"7", " ", "*">>
  /\ encoded = <<>>
  /\ space_marker_index = 2
  /\ a_rotation_index = 2
  /\ i_rotation_index = 1
  /\ entry_counters = Counters(2, 2, 1)

---------------------------------------------------------------------------
(* Two threads, each making one call on a BigramEncoder or BigramDecoder   *)
(* constructed with the same key.  The encoders of the two threads are one *)
(* instance or two.  A step is one access to an instance attribute, one    *)
(* key lookup with the append that follows it, or one iteration of a       *)
(* decoder loop; `self.x += 1` is a load followed by a store.               *)

Threads == {1, 2}

Op(name) == [op |-> name, arg |-> <<>>]

\* encode, lines 45-47
ResetOps == <<Op("reset_space"), Op("reset_a"), Op("reset_i")>>

\* _get_space_marker: index, increment, lookup
SpaceOps == <<Op("s_index"), Op("s_load"), Op("s_store"), Op("s_emit")>>

\* _encode_word: the standalone words use a rotation counter, the others none
WordOps(word) ==
  LET clean_word == CleanWord(word)
  IN IF clean_word = <<>> THEN <<>>
     ELSE IF clean_word = <<"A">>
          THEN <<Op("a_index"), Op("a_load"), Op("a_store"), Op("a_emit")>>
     ELSE IF clean_word = <<"I">>
          THEN <<Op("i_index"), Op("i_load"), Op("i_store"), Op("i_emit")>>
     ELSE <<[op |-> "word", arg |-> word]>>

\* _encode_sentence: each word, and a space marker after each word but the last
SentenceOps(sentence) ==
  LET words == split(sentence)
  IN Concat([w \in 1..Len(words) |->
               WordOps(words[w]) \o (IF w < Len(words) THEN SpaceOps ELSE <<>>)])

\* encode without lines 45-47
EncodeOps_noreset(text) ==
  LET sentences == _split_sentences(_preprocess_text(text))
  IN Concat([j \in 1..Len(sentences) |->
               SentenceOps(sentences[j])
               \o (IF j < Len(sentences) THEN SpaceOps \o SpaceOps ELSE <<>>)])

\* encode: the resets, each sentence, and two space markers after each but the last
EncodeOps(text) ==
  LET sentences == _split_sentences(_preprocess_text(text))
  IN ResetOps
     \o Concat([j \in 1..Len(sentences) |->
                  SentenceOps(sentences[j])
                  \o (IF j < Len(sentences) THEN SpaceOps \o SpaceOps ELSE <<>>)])

IdleThread(inst) ==
  [status |-> "idle", kind |-> "none", arg |-> <<>>, instance |-> inst, ops |-> <<>>,
   pc |-> 1, index |-> 0, tmp |-> 0, result |-> <<>>, pos |-> 0, disturbed |-> FALSE,
   overlapped |-> FALSE]

\* counters that are class attributes: every encoder uses the same three
InstanceOf_class(p) == 1

\* the BigramEncoder instance thread p calls
InstanceOf(p) == threads[p].instance

ThreadTexts == { <<"A", " ", "A">>, <<"A", "T", ".", " ", "I">> }

ThreadExpressions == { <<"7", " ", "/", " ", "7">> }

\* token lists handed to the decoder: those a fresh encoder returns
ThreadStreams(k) == {FreshEncode(k, t).result : t \in ThreadTexts}

InitThreads ==
  /\ \E st \in StartRng :
       \E g \in {generate_key(st, "alice", 0)} :
          /\ rng = g.rng
          /\ key = g.key
          /\ key_log = <<g.key>>
  /\ space_marker_index = 0
  /\ a_rotation_index = 0
  /\ i_rotation_index = 0
  /\ last = "new"
  /\ origin = "none"
  /\ plaintext = <<>>
  /\ encoded = <<>>
  /\ decoded = <<>>
  /\ special_extra = 0
  /\ error = "none"
  /\ calls = 0
  /\ entry_counters = Counters(0, 0, 0)
  /\ instances = [n \in {1, 2} |-> Counters(0, 0, 0)]
  /\ \E inst \in {1, 2} : threads = [p \in Threads |-> IdleThread(IF p = 1 THEN 1 ELSE inst)]
  /\ InitFiles

threadFrame ==
  UNCHANGED <<keyVars, encoderVars, ioVars, special_extra, error, calls, entry_counters, fileVars>>

\* thread p has taken a step: the calls of the other threads that are running
\* have had a step of p between two of theirs
Overlap(ts, p) ==
  [q \in Threads |->
     IF q # p /\ ts[q].status = "running" /\ ts[q].pc + ts[q].pos > 1
     THEN [ts[q] EXCEPT !.overlapped = TRUE] ELSE ts[q]]

\* One step of an encoder call of thread record t on an instance whose counters
\* are c: the thread after it, the counters after it, and whether it wrote them.
EncoderStep(k, t, c) ==
  LET o == t.ops[t.pc]
      next == [t EXCEPT !.pc = @ + 1]
      local(th) == [thread |-> th, counters |-> c, wrote |-> FALSE]
      write(cs) == [thread |-> next, counters |-> cs, wrote |-> TRUE]
      emit(tokens) == local([next EXCEPT !.result = @ \o tokens])
      standalone(letter) ==
        LET symbol == get_symbol_for_bigram(k, <<letter, LETTERS[t.index + 1]>>)
        IN emit(IF symbol # None THEN <<PartialBefore(symbol)>> ELSE <<>>)
  IN CASE o.op = "reset_space" -> write([c EXCEPT !.space_marker_index = 0])
       [] o.op = "reset_a" -> write([c EXCEPT !.a_rotation_index = 0])
       [] o.op = "reset_i" -> write([c EXCEPT !.i_rotation_index = 0])
       [] o.op = "s_index" ->
            local([next EXCEPT !.index = c.space_marker_index % Len(SPACE_MARKERS)])
       [] o.op = "s_load" -> local([next EXCEPT !.tmp = c.space_marker_index])
       [] o.op = "s_store" -> write([c EXCEPT !.space_marker_index = t.tmp + 1])
       [] o.op = "s_emit" ->
            LET symbol == get_symbol_for_space_marker(k, SPACE_MARKERS[t.index + 1])
            IN emit(<<IF symbol # None THEN symbol ELSE 0>>)
       [] o.op = "a_index" -> local([next EXCEPT !.index = c.a_rotation_index % 26])
       [] o.op = "a_load" -> local([next EXCEPT !.tmp = c.a_rotation_index])
       [] o.op = "a_store" -> write([c EXCEPT !.a_rotation_index = t.tmp + 1])
       [] o.op = "a_emit" -> standalone("A")
       [] o.op = "i_index" -> local([next EXCEPT !.index = c.i_rotation_index % 26])
       [] o.op = "i_load" -> local([next EXCEPT !.tmp = c.i_rotation_index])
       [] o.op = "i_store" -> write([c EXCEPT !.i_rotation_index = t.tmp + 1])
       [] o.op = "i_emit" -> standalone("I")
       [] o.op = "word" -> emit(_encode_word(k, c, o.arg).result)
       [] o.op = "math" -> emit(encode_math_expression(k, c, t.arg).result)

StartCall(p, kind, arg, ops) ==
  /\ threads[p].status = "idle"
  /\ threads' = [threads EXCEPT ![p] =
                   [@ EXCEPT !.status = "running", !.kind = kind, !.arg = arg, !.ops = ops]]
  /\ UNCHANGED instances
  /\ threadFrame

StartEncode(p, text) == StartCall(p, "encode", text, EncodeOps(text))

StartMath(p, expression) ==
  StartCall(p, "encode_math_expression", expression, <<Op("math")>>)

StartDecode(p, tokens) == StartCall(p, "decode", tokens, <<>>)

StartDecodeWithSymbols(p, tokens) == StartCall(p, "decode_with_symbols", tokens, <<>>)

IsEncoderCall(t) == t.kind \in {"encode", "encode_math_expression"}

\* thread p runs the next step of its encoder call
StepEncoder(p) ==
  /\ threads[p].status = "running"
  /\ IsEncoderCall(threads[p])
  /\ threads[p].pc <= Len(threads[p].ops)
  /\ \E r \in {EncoderStep(key, threads[p], instances[InstanceOf(p)])} :
        /\ instances' = [instances EXCEPT ![InstanceOf(p)] = r.counters]
        /\ threads' =
             Overlap([q \in Threads |->
                IF q = p THEN r.thread
                ELSE IF /\ r.wrote
                        /\ threads[q].status = "running"
                        /\ threads[q].kind = "encode"
                        /\ InstanceOf(q) = InstanceOf(p)
                     THEN [threads[q] EXCEPT !.disturbed = TRUE]
                     ELSE threads[q]], p)
  /\ threadFrame

\* thread p runs one iteration of decode's loop
StepDecode(p) ==
  /\ threads[p].status = "running"
  /\ threads[p].kind = "decode"
  /\ threads[p].pos < Len(threads[p].arg)
  /\ \E d \in {DecodeAt(key, threads[p].arg, threads[p].pos)} :
        threads' = Overlap([threads EXCEPT ![p] =
                      [@ EXCEPT !.pos = @ + d.skip + 1, !.result = @ \o d.text]], p)
  /\ UNCHANGED instances
  /\ threadFrame

\* thread p runs one iteration of decode_with_symbols' loop
StepDecodeWithSymbols(p) ==
  /\ threads[p].status = "running"
  /\ threads[p].kind = "decode_with_symbols"
  /\ threads[p].pos < Len(threads[p].arg)
  /\ \E d \in {DecodeWithSymbolsAt(key, threads[p].arg, threads[p].pos)} :
        threads' = Overlap([threads EXCEPT ![p] =
                      [@ EXCEPT !.pos = @ + d.skip + 1, !.result = Append(@, d.record)]], p)
  /\ UNCHANGED instances
  /\ threadFrame

\* thread p's call returns its result
Return(p) ==
  /\ threads[p].status = "running"
  /\ IF IsEncoderCall(threads[p])
     THEN threads[p].pc > Len(threads[p].ops)
     ELSE threads[p].pos >= Len(threads[p].arg)
  /\ threads' = [threads EXCEPT ![p] = [@ EXCEPT !.status = "done"]]
  /\ UNCHANGED instances
  /\ threadFrame

NextThreads ==
  \/ \E p \in Threads, text \in ThreadTexts : StartEncode(p, text)
  \/ \E expression \in ThreadExpressions : StartMath(2, expression)
  \/ \E tokens \in ThreadStreams(key) : StartDecode(2, tokens)
  \/ \E tokens \in ThreadStreams(key) : StartDecodeWithSymbols(2, tokens)
  \/ \E p \in Threads : StepEncoder(p)
  \/ \E p \in Threads : StepDecode(p)
  \/ \E p \in Threads : StepDecodeWithSymbols(p)
  \/ \E p \in Threads : Return(p)

SpecThreads == InitThreads /\ [][NextThreads]_vars

\* what the call of thread record t returns when nothing else runs, on a fresh instance
AloneResult(k, t) ==
  CASE t.kind = "encode" -> FreshEncode(k, t.arg).result
    [] t.kind = "encode_math_expression" ->
         encode_math_expression(k, Counters(0, 0, 0), t.arg).result
    [] t.kind = "decode" -> decode(k, t.arg)
    [] t.kind = "decode_with_symbols" -> decode_with_symbols(k, t.arg)

\* C13: two encode calls on one BigramEncoder instance read, advance and reset the
\* same three counters: a call returns tokens other than those it returns alone
\* only when another call wrote the counters of its instance while it ran, and such
\* an interleaving exists.
C13_SharedCounters ==
  \A p \in Threads :
    (/\ threads[p].status = "done"
     /\ threads[p].kind = "encode"
     /\ threads[p].result # AloneResult(key, threads[p]))
    => (/\ threads[p].disturbed
        /\ \E q \in Threads \ {p} : threads[q].instance = threads[p].instance)

\* both calls are done, thread 1 encoded "A A" and, disturbed by thread 2's resets
\* and increments, returned other tokens than alone
C13_Witness ==
  /\ threads[1].status = "done"
  /\ threads[2].status = "done"
  /\ threads[1].kind = "encode"
  /\ threads[2].kind = "encode"
  /\ threads[1].instance = threads[2].instance
  /\ threads[1].arg = <<"A", " ", "A">>
  /\ threads[1].result # AloneResult(key, threads[1])
  /\ threads[1].disturbed

\* C14: no operation writes the key, and when the two threads' encoders are
\* separate instances every call returns what it returns alone, however the
\* steps of the two calls interleave; decoder calls do so in every case.
C14_KeyImmutable ==
  /\ key = key_log[1]
  /\ \A p \in Threads :
       (/\ threads[p].status = "done"
        /\ \/ threads[1].instance # threads[2].instance
           \/ ~IsEncoderCall(threads[p]))
       => threads[p].result = AloneResult(key, threads[p])

\* two encode calls on separate instances, each with steps of the other between
\* its own, both returning what they return alone
C14_Witness ==
  /\ threads[1].instance # threads[2].instance
  /\ \A p \in Threads :
       /\ threads[p].status = "done"
       /\ threads[p].kind = "encode"
       /\ threads[p].overlapped
       /\ threads[p].arg = <<"A", " ", "A">>
       /\ threads[p].result = AloneResult(key, threads[p])
  /\ instances[1] = Counters(1, 2, 0)
  /\ instances[2] = Counters(1, 2, 0)

---------------------------------------------------------------------------
(* The decoder on token lists of any origin: a BigramDecoder is handed a    *)
(* list of integers, which decode and decode_with_symbols then traverse.    *)

\* token lists have at most MaxStreamLen tokens
MaxStreamLen == 3

\* the first token the key gives no meaning: indices run 0 .. TOTAL_SYMBOLS - 1
FirstUnknown(k) == Cardinality(DOMAIN k.symbol_to_meaning)

\* Tokens of every shape decode distinguishes: two space markers, a bigram plain
\* and in both partial forms, a partial space marker, the multiply/divide
\* indicator, a negative digit plain and partial, and tokens whose symbol the key
\* does not hold
\* (plain, partial-before and partial-after)
StreamTokens(k) ==
  { get_symbol_for_space_marker(k, SPACE_MARKERS[1]),
    get_symbol_for_space_marker(k, SPACE_MARKERS[2]),
    get_symbol_for_bigram(k, <<"T", "O">>),
    -(get_symbol_for_bigram(k, <<"B", "E">>) + 1),
    get_symbol_for_bigram(k, <<"A", "T">>) + PARTIAL_AFTER_OFFSET,
    -(get_symbol_for_space_marker(k, SPACE_MARKERS[1]) + 1),
    get_muldiv_symbol(k),
    get_symbol_for_number(k, -7),
    -(get_symbol_for_number(k, -7) + 1),
    FirstUnknown(k),
    -(FirstUnknown(k) + 1),
    FirstUnknown(k) + PARTIAL_AFTER_OFFSET }

Streams(k) == UNION {[1..n -> StreamTokens(k)] : n \in 0..MaxStreamLen}

\* a BigramDecoder constructed with a generated key
InitDecode ==
  /\ \E st \in StartRng, seed \in CodecSeeds :
       \E g \in {generate_key(st, "alice", seed)} :
          /\ rng = g.rng
          /\ key = g.key
          /\ key_log = <<g.key>>
  /\ InitCodec

\* the caller holds a token list
ReceiveTokens(tokens) ==
  /\ last = "new"
  /\ encoded' = tokens
  /\ origin' = "tokens"
  /\ last' = "tokens"
  /\ UNCHANGED <<keyVars, encoderVars, plaintext, decoded, extVars>>

\* decode(encoded): lines 25-115 hold no raise, the call returns a string
DecodeStream ==
  /\ last = "tokens"
  /\ decoded' = decode(key, encoded)
  /\ error' = "none"
  /\ last' = "decode"
  /\ UNCHANGED <<keyVars, encoderVars, origin, plaintext, encoded, special_extra,
                 calls, entry_counters, instances, threads, fileVars>>

\* decode_with_symbols(encoded), called after decode on the same list
DecodeWithSymbols ==
  /\ last = "decode"
  /\ origin = "tokens"
  /\ records' = decode_with_symbols(key, encoded)
  /\ error' = "none"
  /\ last' = "decode_with_symbols"
  /\ UNCHANGED <<keyVars, encoderVars, origin, plaintext, encoded, decoded, special_extra,
                 calls, entry_counters, instances, threads, content, loaded, key_file,
                 loaded_key>>

NextDecode ==
  \/ /\ last = "new"
     /\ \E tokens \in Streams(key) : ReceiveTokens(tokens)
  \/ DecodeStream
  \/ DecodeWithSymbols

SpecDecode == InitDecode /\ [][NextDecode]_vars

\* the token resolves to a symbol index the key gives no meaning
IsUnknownToken(k, symbol_idx) ==
  get_meaning_from_symbol(k, ActualSymbol(symbol_idx)) = NoMeaning

\* C16: decode of a token list that holds a token whose symbol index has no
\* meaning in the key ends with an error reported to the caller, not with a
\* string from which the token is missing.
C16_ExplicitFailure ==
  (/\ last = "decode"
   /\ origin = "tokens"
   /\ \E j \in 1..Len(encoded) : IsUnknownToken(key, encoded[j]))
  => error # "none"

\* TO, an unknown plain token, a space marker: decode returns "TO " and no error
C16_Observed ==
  /\ last = "decode"
  /\ encoded = <<get_symbol_for_bigram(key, <<"T", "O">>), FirstUnknown(key),
                 get_symbol_for_space_marker(key, SPACE_MARKERS[1])>>
  /\ FirstUnknown(key) = TOTAL_SYMBOLS
  /\ decoded = <<"T", "O", " ">>
  /\ error = "none"

\* the decoded_text fields of the records, joined in order
DecodedText(rs) == Concat([j \in 1..Len(rs) |-> rs[j].decoded_text])

\* C17: for every token list, the decoded_text fields of the records that
\* decode_with_symbols returns, joined in order, are the string decode returns.
C17_SameTraversal ==
  last = "decode_with_symbols" => DecodedText(records) = decode(key, encoded)

\* two space markers and a partial-before BE: records ". " and "B", decode ". B"
C17_Witness ==
  /\ last = "decode_with_symbols"
  /\ encoded = <<get_symbol_for_space_marker(key, SPACE_MARKERS[1]),
                 get_symbol_for_space_marker(key, SPACE_MARKERS[2]),
                 -(get_symbol_for_bigram(key, <<"B", "E">>) + 1)>>
  /\ decoded = <<".", " ", "B">>
  /\ DecodedText(records) = <<".", " ", "B">>

\* the record describes the token: its index, the symbol it resolves to, that
\* symbol's meaning and the partial flags
Describes(k, record, symbol_idx) ==
  /\ record.symbol_index = symbol_idx
  /\ record.actual_symbol = ActualSymbol(symbol_idx)
  /\ record.meaning = get_meaning_from_symbol(k, ActualSymbol(symbol_idx))
  /\ record.partial_before = (TokenShape(symbol_idx) = "partial_before")
  /\ record.partial_after = (TokenShape(symbol_idx) = "partial_after")

\* C18: decode_with_symbols returns one record per token of the list, the i-th
\* record describing the i-th token.
C18_PerTokenRecords ==
  last = "decode_with_symbols"
  => /\ Len(records) = Len(encoded)
     /\ \A j \in 1..Len(records) : Describes(key, records[j], encoded[j])

\* TO and two space markers: two records, the second for both markers
C18_Observed ==
  /\ last = "decode_with_symbols"
  /\ encoded = <<get_symbol_for_bigram(key, <<"T", "O">>),
                 get_symbol_for_space_marker(key, SPACE_MARKERS[1]),
                 get_symbol_for_space_marker(key, SPACE_MARKERS[2])>>
  /\ Len(records) = 2
  /\ records[2].decoded_text = <<".", " ">>

---------------------------------------------------------------------------
(* Encoded-message files: a token list is saved, the file is possibly      *)
(* rewritten with blank segments and padding, then loaded or decoded.      *)

\* saved token lists have at most MaxFileLen tokens
MaxFileLen == 2

\* tokens of one and several digits, negative, and at or above the offset
FileTokens(k) ==
  { 0,
    get_symbol_for_bigram(k, <<"T", "O">>),
    get_symbol_for_space_marker(k, SPACE_MARKERS[1]),
    -(get_symbol_for_bigram(k, <<"B", "E">>) + 1),
    get_symbol_for_bigram(k, <<"A", "T">>) + PARTIAL_AFTER_OFFSET,
    -(FirstUnknown(k) + 1),
    FirstUnknown(k) + PARTIAL_AFTER_OFFSET }

FileStreams(k) == UNION {[1..n -> FileTokens(k)] : n \in 0..MaxFileLen}

\* every "," of a text replaced by the text sep
RECURSIVE ReplaceCommas(_, _)
ReplaceCommas(text, sep) ==
  IF text = <<>> THEN <<>>
  ELSE (IF Head(text) = "," THEN sep ELSE <<Head(text)>>) \o ReplaceCommas(Tail(text), sep)

\* Rewritings of a file that add blank segments or whitespace only
Edits == {"trailing_comma", "leading_comma", "double_commas", "blank_segment",
          "padding", "newline"}

Edited(text, edit) ==
  CASE edit = "trailing_comma" -> text \o <<",">>
    [] edit = "leading_comma" -> <<",">> \o text
    [] edit = "double_commas" -> ReplaceCommas(text, <<",", ",">>)
    [] edit = "blank_segment" -> text \o <<",", " ", ",">>
    [] edit = "padding" -> <<" ">> \o ReplaceCommas(text, <<" ", ",", " ">>) \o <<" ">>
    [] edit = "newline" -> text \o <<"\n">>

InitFile == Init

\* save_encoded_message(encoded, filepath)
SaveEncodedMessage ==
  /\ last = "tokens"
  /\ content' = save_encoded_message(encoded)
  /\ error' = "none"
  /\ last' = "save_encoded_message"
  /\ UNCHANGED <<keyVars, encoderVars, origin, plaintext, encoded, decoded, special_extra,
                 calls, entry_counters, instances, threads, records, loaded, key_file,
                 loaded_key>>

\* the file is rewritten by hand or by another tool
EditFile(edit) ==
  /\ last = "save_encoded_message"
  /\ content' = Edited(content, edit)
  /\ last' = "edit"
  /\ UNCHANGED <<keyVars, encoderVars, origin, plaintext, encoded, decoded, special_extra,
                 error, calls, entry_counters, instances, threads, records, loaded,
                 key_file, loaded_key>>

\* load_encoded_message(filepath)
LoadEncodedMessage ==
  /\ last \in {"save_encoded_message", "edit"}
  /\ \E r \in {load_encoded_message(content)} :
        /\ loaded' = r.result
        /\ error' = r.error
  /\ last' = "load_encoded_message"
  /\ UNCHANGED <<keyVars, encoderVars, origin, plaintext, encoded, decoded, special_extra,
                 calls, entry_counters, instances, threads, records, content, key_file,
                 loaded_key>>

\* load_and_decode(filepath)
LoadAndDecode ==
  /\ last \in {"save_encoded_message", "edit", "load_encoded_message"}
  /\ \E r \in {load_and_decode(key, content)} :
        /\ decoded' = r.result
        /\ error' = r.error
  /\ last' = "load_and_decode"
  /\ UNCHANGED <<keyVars, encoderVars, origin, plaintext, encoded, special_extra,
                 calls, entry_counters, instances, threads, records, content, loaded,
                 key_file, loaded_key>>

NextFile ==
  \/ /\ last = "new"
     /\ \E tokens \in FileStreams(key) : ReceiveTokens(tokens)
  \/ SaveEncodedMessage
  \/ \E edit \in Edits : EditFile(edit)
  \/ LoadEncodedMessage
  \/ LoadAndDecode

SpecFile == InitFile /\ [][NextFile]_vars

\* C19: a token list saved with save_encoded_message is the list that
\* load_encoded_message returns, also after blank segments and padding were added
\* to the file, and load_and_decode of a file returns decode of the list that
\* load_encoded_message returns for it.
C19_FileRoundTrip ==
  /\ last = "load_encoded_message" => (error = "none" /\ loaded = encoded)
  /\ last = "load_and_decode"
     => /\ error = "none"
        /\ decoded = decode(key, load_encoded_message(content).result)
        /\ decoded = decode(key, encoded)

\* a partial-before and a partial-after token, saved, the file padded, loaded
C19_Witness ==
  /\ last = "load_encoded_message"
  /\ encoded = <<-(get_symbol_for_bigram(key, <<"B", "E">>) + 1),
                 get_symbol_for_bigram(key, <<"A", "T">>) + PARTIAL_AFTER_OFFSET>>
  /\ content = <<" ">> \o str(encoded[1]) \o <<" ", ",", " ">> \o str(encoded[2]) \o <<" ">>
  /\ loaded = encoded

---------------------------------------------------------------------------
(* Key files: a key returned by generate_key is saved and loaded, and a    *)
(* codec is constructed with the loaded key.                               *)

KeyFileTexts ==
  { <<>>, <<"A">>, <<"T", "O", ".", " ", "B", "E">>, <<"A", "T", " ", "I", "T">>,
    <<"H", "E", "L", "L", "O">>, <<"7", " ", "A">> }

\* a KeyManager has returned a key, from a given seed or from one it drew
InitKeyFile ==
  /\ \E st \in StartRng, recipient_name \in Labels :
       \E g \in {generate_key(st, recipient_name, seed) : seed \in CodecSeeds}
                 \cup {generate_key_unseeded(st, recipient_name)} :
          /\ rng = g.rng
          /\ key = g.key
          /\ key_log = <<g.key>>
  /\ InitCodec

\* save_key(key)
SaveKey ==
  /\ last = "new"
  /\ key_file' = save_key(key)
  /\ last' = "save_key"
  /\ UNCHANGED <<keyVars, encoderVars, origin, plaintext, encoded, decoded, special_extra,
                 error, calls, entry_counters, instances, threads, records, content,
                 loaded, loaded_key>>

\* load_key(filepath)
LoadKey ==
  /\ last = "save_key"
  /\ loaded_key' = load_key(key_file)
  /\ last' = "load_key"
  /\ UNCHANGED <<keyVars, encoderVars, origin, plaintext, encoded, decoded, special_extra,
                 error, calls, entry_counters, instances, threads, records, content,
                 loaded, key_file>>

\* BigramEncoder(loaded_key).encode(text)
EncodeLoaded(text) ==
  /\ last = "load_key"
  /\ \E r \in {encode(loaded_key, Counters(space_marker_index, a_rotation_index,
                                          i_rotation_index), text)} :
        /\ encoded' = r.result
        /\ space_marker_index' = r.enc.space_marker_index
        /\ a_rotation_index' = r.enc.a_rotation_index
        /\ i_rotation_index' = r.enc.i_rotation_index
  /\ plaintext' = text
  /\ last' = "encode_loaded"
  /\ origin' = "encode"
  /\ UNCHANGED <<keyVars, decoded, extVars>>

\* BigramDecoder(loaded_key).decode(encoded)
DecodeLoaded ==
  /\ last = "encode_loaded"
  /\ decoded' = decode(loaded_key, encoded)
  /\ last' = "decode_loaded"
  /\ UNCHANGED <<keyVars, encoderVars, origin, plaintext, encoded, extVars>>

NextKeyFile ==
  \/ SaveKey
  \/ LoadKey
  \/ \E text \in KeyFileTexts : EncodeLoaded(text)
  \/ DecodeLoaded

SpecKeyFile == InitKeyFile /\ [][NextKeyFile]_vars

\* C20: the key load_key returns for a file save_key wrote has the recipient and
\* the seed of the saved key, a symbol_to_meaning equal to the saved one with
\* integer indices, and an equal meaning_to_symbol; encode and decode with the
\* loaded key return what they return with the saved key.
C20_KeyRoundTrip ==
  /\ last \in {"load_key", "encode_loaded", "decode_loaded"}
     => /\ loaded_key.recipient = key.recipient
        /\ loaded_key.seed = key.seed
        /\ DOMAIN loaded_key.symbol_to_meaning = 0..(TOTAL_SYMBOLS - 1)
        /\ loaded_key.symbol_to_meaning = key.symbol_to_meaning
        /\ loaded_key.meaning_to_symbol = key.meaning_to_symbol
  /\ last = "encode_loaded" => encoded = FreshEncode(key, plaintext).result
  /\ last = "decode_loaded" => decoded = decode(key, encoded)

\* a key from a drawn seed, saved and loaded; "TO. BE" encoded and decoded with
\* the loaded key
C20_Witness ==
  /\ last = "decode_loaded"
  /\ key.seed \notin CodecSeeds
  /\ <<"7", "1", "7">> \in {p[1] : p \in key_file.symbol_to_meaning}
  /\ loaded_key = key
  /\ plaintext = <<"T", "O", ".", " ", "B", "E">>
  /\ Len(encoded) = 4
  /\ decoded = plaintext

---------------------------------------------------------------------------
(* Seeds: a KeyManager whose generate_key is called with seeds of either   *)
(* sign.                                                                   *)

\* seeds are -MaxSeedAbs, ..., MaxSeedAbs
MaxSeedAbs == 2

\* generate_key is called at most MaxSeedCalls times
MaxSeedCalls == 2

SignedSeeds == (-MaxSeedAbs)..MaxSeedAbs

InitSeeds == InitKey

\* generate_key(recipient_name, seed) for an int seed of either sign
GenerateKeySigned(recipient_name, seed) ==
  /\ Len(key_log) < MaxSeedCalls
  /\ GenerateKey(recipient_name, seed)

NextSeeds == \E r \in Labels, seed \in SignedSeeds : GenerateKeySigned(r, seed)

SpecSeeds == InitSeeds /\ [][NextSeeds]_vars

\* C21: two keys generated from different seeds have different symbol_to_meaning
\* mappings and different meaning_to_symbol mappings.
C21_DifferentSeeds ==
  \A i, j \in 1..Len(key_log) :
    key_log[i].seed # key_log[j].seed
    => /\ key_log[i].symbol_to_meaning # key_log[j].symbol_to_meaning
       /\ key_log[i].meaning_to_symbol # key_log[j].meaning_to_symbol

\* the keys of seeds 1 and -1, in that order: the same two mappings
C21_Observed ==
  /\ Len(key_log) = 2
  /\ key_log[1].seed = 1
  /\ key_log[2].seed = -1
  /\ key_log[1].symbol_to_meaning = key_log[2].symbol_to_meaning
  /\ key_log[1].meaning_to_symbol = key_log[2].meaning_to_symbol

---------------------------------------------------------------------------
(* Sentence boundaries in the decoded text *)

\* how many times the fragment ". " occurs in a text
BoundaryCount(text) ==
  Cardinality({j \in 1..(Len(text) - 1) : text[j] = "." /\ text[j + 1] = " "})

\* how many sentence-end markers encode inserts: one between consecutive sentences
MarkersInserted(text) ==
  IF SentencesOf(text) = <<>> THEN 0 ELSE Len(SentencesOf(text)) - 1

\* C22: the decoded text of an encoded text holds as many ". " fragments as encode
\* inserted sentence-end markers, and the words of a text that is one sentence are
\* separated by single spaces in it - also when a word cleans to nothing.
C22_NoSpuriousBoundary ==
  (last = "decode" /\ origin = "encode") =>
    /\ BoundaryCount(decoded) = MarkersInserted(plaintext)
    /\ MarkersInserted(plaintext) = 0
       => /\ "." \notin Range(decoded)
          /\ \A j \in 1..(Len(decoded) - 1) : ~(decoded[j] = " " /\ decoded[j + 1] = " ")

\* the one-sentence text "A - A" is decoded as "A. A": the separators before and
\* after the word "-" are read as a sentence boundary
C22_Observed ==
  /\ last = "decode"
  /\ origin = "encode"
  /\ plaintext = <<"A", " ", "-", " ", "A">>
  /\ MarkersInserted(plaintext) = 0
  /\ Len(encoded) = 4
  /\ decoded = <<"A", ".", " ", "A">>

---------------------------------------------------------------------------
(* Space markers in the token list of one encode call *)

\* the token is plain and its symbol means a space marker
IsSpaceToken(k, symbol_idx) ==
  /\ TokenShape(symbol_idx) = "plain"
  /\ StartsWith(get_meaning_from_symbol(k, symbol_idx), SPACE_)

\* the positions of the space-marker tokens of a token list, in order
SpacePositions(k, tokens) ==
  SelectSeq([j \in 1..Len(tokens) |-> j], LAMBDA j : IsSpaceToken(k, tokens[j]))

\* the gaps between the whitespace-separated words of a sentence
WordGaps(sentence) == IF split(sentence) = <<>> THEN 0 ELSE Len(split(sentence)) - 1

RECURSIVE SumWordGaps(_)
SumWordGaps(sentences) ==
  IF sentences = <<>> THEN 0 ELSE WordGaps(Head(sentences)) + SumWordGaps(Tail(sentences))

\* C23: in the token list of one encode call the j-th space-marker token (j from 0)
\* is the symbol of "SPACE_" + SPACE_MARKERS[j mod 7]; there is one for every gap
\* between two words of a sentence and two for every sentence-end marker, none
\* after the last word of a text of words; and space_marker_index is their number
\* when encode returns.
C23_SpaceRotation ==
  origin = "encode" =>
    LET positions == SpacePositions(key, encoded)
    IN /\ \A j \in 1..Len(positions) : encoded[positions[j]] = SpaceSymbolAt(key, j - 1)
       /\ Len(positions) = SumWordGaps(SentencesOf(plaintext)) + 2 * MarkersInserted(plaintext)
       /\ space_marker_index = Len(positions)
       /\ IsWordSentence(plaintext)
          => /\ Len(positions) = Len(split(plaintext)) - 1
             /\ ~IsSpaceToken(key, encoded[Len(encoded)])
             /\ \A j \in 1..(Len(encoded) - 1) :
                  ~(IsSpaceToken(key, encoded[j]) /\ IsSpaceToken(key, encoded[j + 1]))

\* ten standalone words: nine markers, the eighth is the first one again
C23_Witness ==
  /\ last = "encode"
  /\ plaintext = RunText("A", "I", 10)
  /\ SpacePositions(key, encoded) = <<2, 4, 6, 8, 10, 12, 14, 16, 18>>
  /\ encoded[16] = encoded[2]
  /\ encoded[14] # encoded[2]
  /\ space_marker_index = 9

---------------------------------------------------------------------------
(* The lookaheads of decode *)

\* n copies of a text
RECURSIVE Repeat(_, _)
Repeat(text, n) == IF n <= 0 THEN <<>> ELSE text \o Repeat(text, n - 1)

\* C24: an iteration of decode at a plain space-marker token appends ". " and
\* passes over the next token when that token, taken by its raw value, is a plain
\* space marker too; otherwise it appends " " and passes over the current token
\* only. A list of k plain space markers is decoded as k div 2 fragments ". ",
\* then one " " when k is odd.
C24_SpaceLookahead ==
  (last = "decode" /\ origin = "tokens") =>
    LET trace == DecodeTrace(key, encoded)
        n == Len(encoded)
    IN /\ \A s \in 1..Len(trace) :
            LET i == trace[s].index
            IN IsSpaceToken(key, encoded[i + 1])
               => IF i + 1 < n /\ IsSpaceToken(key, encoded[i + 2])
                  THEN trace[s].text = <<".", " ">> /\ trace[s].next = i + 2
                  ELSE trace[s].text = <<" ">> /\ trace[s].next = i + 1
       /\ (\A j \in 1..n : IsSpaceToken(key, encoded[j]))
          => decoded = Repeat(<<".", " ">>, n \div 2) \o Repeat(<<" ">>, n % 2)

\* a space marker before a partial-before space marker and a space marker: " ",
\* then the letter of the partial token, then " "
C24_Witness ==
  /\ last = "decode"
  /\ origin = "tokens"
  /\ encoded = <<get_symbol_for_space_marker(key, SPACE_MARKERS[2]),
                 -(get_symbol_for_space_marker(key, SPACE_MARKERS[1]) + 1),
                 get_symbol_for_space_marker(key, SPACE_MARKERS[1])>>
  /\ decoded = <<" ", "S", " ">>

\* the meaning of a token taken by its raw value: none for the partial forms
RawMeaning(k, symbol_idx) ==
  IF TokenShape(symbol_idx) = "plain" THEN get_meaning_from_symbol(k, symbol_idx)
  ELSE NoMeaning

\* C25: an iteration of decode at a plain MULDIV token appends " / " when a next
\* token exists whose raw value means a negative digit, and " * " otherwise, the
\* last token included; it passes over the MULDIV token only, and the next
\* iteration is the one of the next token.
C25_OperatorLookahead ==
  (last = "decode" /\ origin = "tokens") =>
    LET trace == DecodeTrace(key, encoded)
        n == Len(encoded)
    IN \A s \in 1..Len(trace) :
         LET i == trace[s].index
         IN RawMeaning(key, encoded[i + 1]) = MULTIPLY_DIVIDE_MARKER
            => /\ IF i + 1 < n /\ StartsWith(RawMeaning(key, encoded[i + 2]), NUM_NEG_)
                  THEN trace[s].text = <<" ", "/", " ">>
                  ELSE trace[s].text = <<" ", "*", " ">>
               /\ trace[s].next = i + 1
               /\ i + 1 < n => (s < Len(trace) /\ trace[s + 1].index = i + 1)

\* MULDIV, the negative digit 7, MULDIV: " / ", then the digit, then " * "
C25_Witness ==
  /\ last = "decode"
  /\ origin = "tokens"
  /\ encoded = <<get_muldiv_symbol(key), get_symbol_for_number(key, -7),
                 get_muldiv_symbol(key)>>
  /\ decoded = <<" ", "/", " ", "7", " ", "*", " ">>

---------------------------------------------------------------------------
(* Words of letters and digits: one word is encoded, then decoded *)

\* words have at most MaxMixedLen characters
MaxMixedLen == 3

MixedChars == {"A", "B", "1"}

MixedWords == StringsOver(MixedChars, 1, MaxMixedLen)

InitWords == Init

NextWords ==
  \/ \E word \in MixedWords : Encode(word)
  \/ Decode

SpecWords == InitWords /\ [][NextWords]_vars

\* a word of alphanumeric characters that is neither a number nor "A" nor "I"
IsPlainWord(w) ==
  /\ w # <<>>
  /\ \A j \in 1..Len(w) : isalnum(w[j])
  /\ ~IsDigitString(w)
  /\ w # <<"A">>
  /\ w # <<"I">>

\* C26: a word of n alphanumeric characters that is neither all digits nor the
\* standalone "A" or "I" is encoded as (n + 1) div 2 tokens: one for each
\* bigram and one for the final letter of a word of odd length.
C26_NoSilentLoss ==
  (origin = "encode" /\ IsPlainWord(plaintext))
  => Len(encoded) = (Len(plaintext) + 1) \div 2

\* the word "AB1": the token of AB only, decoded as "AB"
C26_Observed ==
  /\ last = "decode"
  /\ plaintext = <<"A", "B", "1">>
  /\ encoded = <<get_symbol_for_bigram(key, <<"A", "B">>)>>
  /\ decoded = <<"A", "B">>

---------------------------------------------------------------------------
(* Partial tokens in decode *)

\* the meaning is one of the 676 bigrams
IsBigramMeaning(m) == Len(m) = 2 /\ m[1] \in Range(LETTERS) /\ m[2] \in Range(LETTERS)

\* C27: an iteration of decode at a partial-before or partial-after token appends
\* a character only when the symbol the token references means a bigram; a partial
\* token that references a digit, a negative digit, MULDIV, a special character or
\* a space marker appends nothing.
C27_PartialOnlyBigrams ==
  (last = "decode" /\ origin = "tokens") =>
    LET trace == DecodeTrace(key, encoded)
    IN \A s \in 1..Len(trace) :
         LET symbol_idx == encoded[trace[s].index + 1]
         IN (/\ TokenShape(symbol_idx) # "plain"
             /\ ~IsBigramMeaning(get_meaning_from_symbol(key, ActualSymbol(symbol_idx))))
            => trace[s].text = <<>>

\* the partial-before token of a space marker and that of the negative digit 7:
\* decoded as "S" and "N", the first characters of SPACE_JQ and NUM_NEG_7
C27_Observed ==
  /\ last = "decode"
  /\ origin = "tokens"
  /\ encoded = <<-(get_symbol_for_space_marker(key, SPACE_MARKERS[1]) + 1),
                 -(get_symbol_for_number(key, -7) + 1)>>
  /\ decoded = <<"S", "N">>

---------------------------------------------------------------------------
(* The lookups of encode *)

\* the meanings _encode_word looks up for a word of letters or of digits
WordLookups(w) ==
  IF IsDigitString(w) THEN {NUM_ \o <<w[j]>> : j \in 1..Len(w)}
  ELSE IF w = <<"A">> \/ w = <<"I">> THEN {w \o <<l>> : l \in Range(LETTERS)}
  ELSE {<<w[2 * j - 1], w[2 * j]>> : j \in 1..(Len(w) \div 2)}
       \cup (IF Len(w) % 2 = 1 THEN {<<w[Len(w)], "A">>} ELSE {})

\* the number of tokens of such a word when no lookup fails
WordTokens(w) ==
  IF IsDigitString(w) THEN Len(w)
  ELSE IF w = <<"A">> \/ w = <<"I">> THEN 1
  ELSE (Len(w) + 1) \div 2

RECURSIVE SumWordTokens(_)
SumWordTokens(ws) ==
  IF ws = <<>> THEN 0 ELSE WordTokens(Head(ws)) + SumWordTokens(Tail(ws))

\* C28: for a generated key and a text whose words are letters only or digits
\* only, every meaning encode looks up has a symbol in the key - the bigrams, the
\* digits, the rotation bigrams of A and I, <letter>A and the space markers - so
\* no token is skipped and no fallback value is returned: the token list holds
\* every word's tokens and one space marker per gap.
C28_NoFallback ==
  (origin = "encode" /\ IsWordSentence(plaintext)) =>
    LET ws == split(plaintext)
    IN /\ \A j \in 1..Len(ws) : \A m \in WordLookups(ws[j]) :
            m \in DOMAIN key.meaning_to_symbol /\ key.meaning_to_symbol[m] # None
       /\ \A m \in 1..Len(SPACE_MARKERS) :
            get_symbol_for_space_marker(key, SPACE_MARKERS[m]) # None
       /\ Len(encoded) = SumWordTokens(ws) + Len(ws) - 1
       /\ \A j \in 1..Len(ws) :
            IsOddLetterWord(ws[j]) => _encode_final_letter(key, ws[j], ws[j][Len(ws[j])]) # <<>>

\* the words "AA" and "7": the bigram AA, a space marker and the digit 7
C28_Witness ==
  /\ last = "encode"
  /\ plaintext = <<"A", "A", " ", "7">>
  /\ encoded = <<get_symbol_for_bigram(key, <<"A", "A">>),
                 get_symbol_for_space_marker(key, SPACE_MARKERS[1]),
                 get_symbol_for_number(key, 7)>>
  /\ None \notin Range(encoded)

---------------------------------------------------------------------------
(* The pass of decode over the token list *)

\* the fragments decode appends: a letter, a bigram, a digit, a special
\* character, " ", ". ", " * ", " / "
IsFragment(text) == Len(text) \in 1..3

\* C29: decode's loop starts at index 0; each iteration advances the index by 1,
\* or by 2 when it appends ". " for two space markers, and appends at most one
\* fragment; the next iteration starts where the last one ended; the loop ends
\* with the index at the end of the list or one past it, after at most one
\* iteration per token, and the string returned is the fragments in order.
C29_SinglePass ==
  (last = "decode" /\ origin = "tokens") =>
    LET trace == DecodeTrace(key, encoded)
        n == Len(encoded)
    IN /\ Len(trace) <= n
       /\ n > 0 => trace[1].index = 0
       /\ \A s \in 1..Len(trace) :
            /\ trace[s].index < n
            /\ trace[s].next - trace[s].index \in {1, 2}
            /\ trace[s].next - trace[s].index = 2
               <=> (/\ trace[s].text = <<".", " ">>
                    /\ IsSpaceToken(key, encoded[trace[s].index + 1])
                    /\ IsSpaceToken(key, encoded[trace[s].index + 2]))
            /\ trace[s].text = <<>> \/ IsFragment(trace[s].text)
            /\ s < Len(trace) => trace[s + 1].index = trace[s].next
       /\ n > 0 => trace[Len(trace)].next \in {n, n + 1}
       /\ decoded = Concat([s \in 1..Len(trace) |-> trace[s].text])

\* two space markers and TO: two iterations, at indices 0 and 2
C29_Witness ==
  /\ last = "decode"
  /\ origin = "tokens"
  /\ encoded = <<get_symbol_for_space_marker(key, SPACE_MARKERS[1]),
                 get_symbol_for_space_marker(key, SPACE_MARKERS[2]),
                 get_symbol_for_bigram(key, <<"T", "O">>)>>
  /\ Len(DecodeTrace(key, encoded)) = 2
  /\ DecodeTrace(key, encoded)[2].index = 2
  /\ decoded = <<".", " ", "T", "O">>

---------------------------------------------------------------------------
(* Key generation by two threads: each calls generate_key with a seed of   *)
(* its own; the generator of module random is shared by the process.       *)

\* seeds of the two calls
KeySeeds == {0, 7, 42}

\* a thread about to call generate_key(recipient_name, seed)
KeyThread(recipient_name, seed) ==
  [pc |-> "seed", recipient |-> recipient_name, seed |-> seed,
   shuffled_items |-> <<>>, result |-> NoKey]

InitKeyThreads ==
  /\ rng \in StartRng
  /\ key = NoKey
  /\ key_log = <<>>
  /\ space_marker_index = 0
  /\ a_rotation_index = 0
  /\ i_rotation_index = 0
  /\ last = "new"
  /\ origin = "none"
  /\ plaintext = <<>>
  /\ encoded = <<>>
  /\ decoded = <<>>
  /\ special_extra = 0
  /\ error = "none"
  /\ calls = 0
  /\ entry_counters = Counters(0, 0, 0)
  /\ instances = <<>>
  /\ \E s1 \in KeySeeds : \E s2 \in KeySeeds \ {s1} :
        threads = [p \in Threads |->
                     IF p = 1 THEN KeyThread("alice", s1) ELSE KeyThread("bob", s2)]
  /\ InitFiles

keyThreadFrame ==
  UNCHANGED <<key, key_log, encoderVars, ioVars, special_extra, error, calls,
              entry_counters, instances, fileVars>>

\* line 47: random.seed(seed)
KeySeed(p) ==
  /\ threads[p].pc = "seed"
  /\ rng' = random_seed(rng, threads[p].seed)
  /\ threads' = [threads EXCEPT ![p].pc = "shuffle"]
  /\ keyThreadFrame

\* lines 50-72: items is built and random.shuffle(shuffled_items) draws from the
\* generator in the state it has now
KeyShuffle(p) ==
  /\ threads[p].pc = "shuffle"
  /\ \E sh \in {shuffle(Items, rng)} :
        /\ rng' = sh[2]
        /\ threads' = [threads EXCEPT ![p].pc = "reseed", ![p].shuffled_items = sh[1]]
  /\ keyThreadFrame

\* line 81 and symbols.py:33-34: SymbolGenerator(seed=seed) calls random.seed(seed)
KeyReseed(p) ==
  /\ threads[p].pc = "reseed"
  /\ rng' = random_seed(rng, threads[p].seed)
  /\ threads' = [threads EXCEPT ![p].pc = "draw"]
  /\ keyThreadFrame

\* line 82: generate_all_symbols draws from the generator
KeyDraw(p) ==
  /\ threads[p].pc = "draw"
  /\ rng' = RngNext(rng)
  /\ threads' = [threads EXCEPT ![p].pc = "return"]
  /\ keyThreadFrame

\* lines 75-78 and 85-95: the two mappings and the key returned
KeyReturn(p) ==
  /\ threads[p].pc = "return"
  /\ \E s2m \in {SymbolToMeaning(threads[p].shuffled_items)} :
        threads' = [threads EXCEPT
                      ![p].pc = "done",
                      ![p].result = [recipient |-> threads[p].recipient,
                                     seed |-> threads[p].seed,
                                     symbol_to_meaning |-> s2m,
                                     meaning_to_symbol |-> MeaningToSymbol(s2m)]]
  /\ UNCHANGED rng
  /\ keyThreadFrame

NextKeyThreads ==
  \E p \in Threads :
    \/ KeySeed(p)
    \/ KeyShuffle(p)
    \/ KeyReseed(p)
    \/ KeyDraw(p)
    \/ KeyReturn(p)

SpecKeyThreads == InitKeyThreads /\ [][NextKeyThreads]_vars

\* the key generate_key returns for the thread's arguments when it runs alone
AloneKey(t) == generate_key(0, t.recipient, t.seed).key

\* C30: under every interleaving of two generate_key calls with different seeds,
\* each call returns the mappings its own seed gives when the call runs alone.
C30_OwnMapping ==
  \A p \in Threads :
    threads[p].pc = "done"
    => /\ threads[p].result.symbol_to_meaning = AloneKey(threads[p]).symbol_to_meaning
       /\ threads[p].result.meaning_to_symbol = AloneKey(threads[p]).meaning_to_symbol

\* thread 2 seeds the generator between thread 1's seeding and thread 1's
\* shuffle: thread 1 returns, under seed 0, the mapping of thread 2's seed 42
C30_Observed ==
  /\ threads[1].pc = "done"
  /\ threads[1].seed = 0
  /\ threads[2].seed = 42
  /\ threads[1].result.seed = 0
  /\ threads[1].result.symbol_to_meaning = AloneKey(threads[2]).symbol_to_meaning
  /\ threads[1].result.symbol_to_meaning # AloneKey(threads[1]).symbol_to_meaning

===========================================================================
